---- MODULE Spec2Model ----
(***************************************************************************)
(* Trust-and-safety core of the Skillio platform (complete_platform.py):   *)
(* the in-memory RateLimiter, the CSRFProtection token store, the          *)
(* moderation of submitted activities and the agency ownership claims.     *)
(*                                                                         *)
(* Time is time.time() read as whole seconds counted from the instant the  *)
(* RateLimiter was constructed.  A Python dict is a function whose DOMAIN  *)
(* is the set of keys present; a Python list is a sequence.                *)
(***************************************************************************)
EXTENDS Integers, Sequences, FiniteSets, TLC

VARIABLES
    now,            \* the clock, time.time()
    steps,          \* number of operations performed so far (bounded by MaxSteps)
    max_requests,   \* the budget the caller passes to is_rate_limited
    window_seconds, \* the window the caller passes to is_rate_limited
    requests,       \* RateLimiter.requests: key -> list of timestamps
    last_cleanup,   \* RateLimiter.last_cleanup
    admitted,       \* history: key -> instants of the calls that were admitted
    denied,         \* history: key -> instant of its latest call, if that was denied
    unswept,        \* the requests dict of a limiter that is given the same calls, one
                    \* at a time, and never sweeps
    tokens,         \* CSRFProtection.tokens: user_id -> {token: timestamp}
    next_token,     \* the next value uuid4 yields: every token is fresh
    issued,         \* history: token -> the principal and instant of its issue
    accepted,       \* history: <<user_id, token>> -> validate calls that returned True
    layout,         \* the columns of table submitted_activities in activities.db
    db,             \* the committed content of activities.db
    next_id,        \* the next value uuid4 yields: every id is fresh
    procs,          \* concurrent requests: process -> its position and locals
    writer,         \* the connection that holds sqlite's write lock, 0 when free
    resp            \* the outcome of the last operation

concVars == <<procs, writer>>
dbVars == <<layout, db, next_id>>
limiterVars ==
    <<max_requests, window_seconds, requests, last_cleanup, admitted, denied, unswept>>
csrfVars == <<tokens, next_token, issued, accepted>>
vars == <<now, steps, limiterVars, csrfVars, dbVars, concVars, resp>>

----------------------------------------------------------------------------
(* Bounds of the model *)

MaxSteps == 6
MaxCsrfSteps == 6
MaxTokens == 2
MaxModSteps == 4
MaxClaimSteps == 5
NProcs == 2
MaxCalls == 3
MaxClock == 301
MaxCsrfCalls == 5
MaxAdmitSteps == 5
MaxCsrfClock == 3601

----------------------------------------------------------------------------
(* Program constants *)

cleanup_interval == 300
RetentionSeconds == 3600

(* Rate-limit keys, the windows callers pass (the default 300, the hour of *)
(* activity submission, and one beyond the retention horizon), budgets,    *)
(* and the amounts by which the clock advances between operations.         *)
Keys == {"k1", "k2"}
Windows == {300, 3600, 7200}
Budgets == {0, 1, 2}
Deltas == {1, 300, 3599}

NoResp == [op |-> "none"]

(* The users table: user id -> role.  Anonymous is a request without a     *)
(* session cookie.                                                         *)
Users == [p1 |-> "parent", s1 |-> "school", s2 |-> "school", a1 |-> "admin"]
Anonymous == "anonymous"
Callers == DOMAIN Users \cup {Anonymous}

(* The catalog the database is seeded with: two agencies, one created by   *)
(* the administrator and one by a school user.  Ids are uuid4 values,      *)
(* modelled as distinct numbers; generated ids start at FirstId.           *)
SeedSchools ==
    [i \in {1, 2} |->
        [name |-> IF i = 1 THEN "Harmony Center" ELSE "Art Studio",
         description |-> "", city |-> "Sofia", verified |-> 1,
         created_by |-> IF i = 1 THEN "a1" ELSE "s1", src |-> 0]]
FirstId == 3
SeedDb ==
    [submitted_activities |-> <<>>, schools |-> SeedSchools,
     activities |-> <<>>, user_agency_claims |-> <<>>]

----------------------------------------------------------------------------
(* RateLimiter *)

\* A mutant of Recent: a timestamp at the window start still counts
RecentInclusive(seq, start) == SelectSeq(seq, LAMBDA ts : ts >= start)

\* [ts for ts in seq if ts > start]
Recent(seq, start) == SelectSeq(seq, LAMBDA ts : ts > start)

\* A mutant of cleanup_old_requests: the sweep keeps the last cleanup_interval
\* seconds only
cleanup_last_interval(reqs, lastc, t) ==
    IF t - lastc > cleanup_interval
    THEN LET cutoff == t - cleanup_interval
             kept == [ip \in DOMAIN reqs |-> Recent(reqs[ip], cutoff)]
         IN  [requests |-> [ip \in {k \in DOMAIN reqs : kept[k] # <<>>} |-> kept[ip]],
              last_cleanup |-> t]
    ELSE [requests |-> reqs, last_cleanup |-> lastc]

\* cleanup_old_requests: the pair (requests, last_cleanup) it leaves behind
cleanup_old_requests(reqs, lastc, t) ==
    IF t - lastc > cleanup_interval
    THEN LET cutoff == t - RetentionSeconds
             kept == [ip \in DOMAIN reqs |-> Recent(reqs[ip], cutoff)]
         IN  [requests |-> [ip \in {k \in DOMAIN reqs : kept[k] # <<>>} |-> kept[ip]],
              last_cleanup |-> t]
    ELSE [requests |-> reqs, last_cleanup |-> lastc]

\* A mutant of Limited: the budget test is off by one
LimitedOffByOne(n, maxreq) == n > maxreq

\* len(recent_requests) >= max_requests
Limited(n, maxreq) == n >= maxreq

\* is_rate_limited(ip, max_requests, window_seconds) at time t: the returned
\* pair (limited, remaining) and the state it leaves behind
is_rate_limited(reqs, lastc, ip, maxreq, window, t) ==
    LET swept == cleanup_old_requests(reqs, lastc, t)
        window_start == t - window
        withkey == IF ip \in DOMAIN swept.requests
                   THEN swept.requests
                   ELSE [k \in DOMAIN swept.requests \cup {ip} |->
                            IF k = ip THEN <<>> ELSE swept.requests[k]]
        recent_requests == Recent(withkey[ip], window_start)
    IN  IF Limited(Len(recent_requests), maxreq)
        THEN [limited |-> TRUE,
              remaining |-> maxreq - Len(recent_requests),
              requests |-> withkey,
              last_cleanup |-> swept.last_cleanup]
        ELSE [limited |-> FALSE,
              remaining |-> maxreq - Len(recent_requests) - 1,
              requests |-> [withkey EXCEPT ![ip] = Append(recent_requests, t)],
              last_cleanup |-> swept.last_cleanup]

\* The requests dict that is_rate_limited leaves behind when it does not
\* sweep (the sweep was made at t itself)
Unswept(reqs, ip, maxreq, window, t) ==
    is_rate_limited(reqs, t, ip, maxreq, window, t).requests

\* dict d with key k set to v
Put(d, k, v) == [x \in DOMAIN d \cup {k} |-> IF x = k THEN v ELSE d[x]]

\* dict d without key k
Del(d, k) == [x \in DOMAIN d \ {k} |-> d[x]]

\* The history of admissions after a call on key ip at time t
Log(adm, ip, limited, t) ==
    IF limited THEN adm
    ELSE Put(adm, ip, Append(IF ip \in DOMAIN adm THEN adm[ip] ELSE <<>>, t))

\* The latest call on key ip, made at time t, was denied or not
LogDenied(den, ip, limited, t) == IF limited THEN Put(den, ip, t) ELSE Del(den, ip)

\* The clock advances
Tick ==
    /\ steps < MaxSteps
    /\ \E d \in Deltas : now' = now + d
    /\ steps' = steps + 1
    /\ UNCHANGED <<limiterVars, csrfVars, dbVars, resp, concVars>>

\* One call of is_rate_limited on a key
Admit ==
    /\ steps < MaxSteps
    /\ \E ip \in Keys :
         \E r \in {is_rate_limited(requests, last_cleanup, ip, max_requests, window_seconds, now)} :
             /\ requests' = r.requests
             /\ last_cleanup' = r.last_cleanup
             /\ admitted' = Log(admitted, ip, r.limited, now)
             /\ denied' = LogDenied(denied, ip, r.limited, now)
             /\ unswept' = Unswept(unswept, ip, max_requests, window_seconds, now)
             /\ resp' = [op |-> "admit", key |-> ip, limited |-> r.limited,
                         remaining |-> r.remaining,
                         waited |-> IF ip \in DOMAIN denied
                                    THEN <<now - denied[ip]>> ELSE <<>>]
    /\ steps' = steps + 1
    /\ UNCHANGED <<now, max_requests, window_seconds, csrfVars, dbVars, concVars>>

\* RateLimiter.__init__, at the instant the clock counts from
LimiterStart ==
    /\ requests = <<>>
    /\ last_cleanup = 0
    /\ admitted = <<>>
    /\ denied = <<>>
    /\ unswept = <<>>

\* The class attribute CSRFProtection.tokens = {}
CsrfStart ==
    /\ tokens = <<>>
    /\ next_token = 1
    /\ issued = <<>>
    /\ accepted = <<>>

\* activities.db as the server finds it: the seeded catalog, no submission and
\* no claim yet, and table submitted_activities absent (so that submit creates
\* it with its own columns)
DbStart ==
    /\ layout = "absent"   \* NoTable
    /\ db = SeedDb
    /\ next_id = FirstId

\* HTTPServer handles one request at a time: no request is in progress
\* between two operations
Sequential ==
    /\ procs = <<>>
    /\ writer = 0

InitLimiter ==
    /\ now = 0
    /\ steps = 0
    /\ max_requests \in Budgets
    /\ window_seconds \in Windows
    /\ LimiterStart
    /\ CsrfStart
    /\ DbStart
    /\ Sequential
    /\ resp = NoResp

NextLimiter == Tick \/ Admit

SpecLimiter == InitLimiter /\ [][NextLimiter]_vars

----------------------------------------------------------------------------
(* The sliding-window property *)

\* The number of admitted calls on key k whose instants lie in (t, t + w]
AdmittedIn(k, t, w) ==
    Cardinality({i \in DOMAIN admitted[k] : t < admitted[k][i] /\ admitted[k][i] <= t + w})

\* No interval (t, t + window_seconds] holds more than max_requests admissions
\* of a key; the intervals that hold the most start just before an admission.
SlidingWindowHolds ==
    \A k \in DOMAIN admitted : \A i \in DOMAIN admitted[k] :
        AdmittedIn(k, admitted[k][i] - 1, window_seconds) <= max_requests

\* C1 as stated: for every positive window_seconds, every key and every
\* sequence of admit calls with the same budget and window, at most
\* max_requests admitted calls fall in any interval (t, t + window_seconds].
C1_AnyWindow == SlidingWindowHolds

\* C1, amended: the same bound for every window_seconds of at most the
\* retention horizon of the sweep (3600 seconds).
C1_WindowWithinRetention ==
    window_seconds <= RetentionSeconds => SlidingWindowHolds

\* A key was admitted more often than its budget over time while a call in a
\* burst was denied, under a window within the retention horizon.
C1_Witness ==
    /\ window_seconds <= RetentionSeconds
    /\ max_requests >= 1
    /\ resp.op = "admit" /\ resp.limited
    /\ resp.key \in DOMAIN admitted
    /\ Len(admitted[resp.key]) > max_requests

----------------------------------------------------------------------------
(* CSRFProtection *)

TokenTTL == 3600
Principals == {"p1", "p2"}
\* user_id and token values a caller may pass; "" and 0 are the empty ones
NoUser == ""
NoToken == 0
CsrfDeltas == {1, 3600}

\* generate_token(user_id) at time t, uuid4 yielding token: the store it leaves
generate_token(toks, user_id, token, t) ==
    LET mine == IF user_id \in DOMAIN toks
                THEN [x \in {y \in DOMAIN toks[user_id] : t - toks[user_id][y] < TokenTTL}
                        |-> toks[user_id][x]]
                ELSE <<>>
    IN  Put(toks, user_id, Put(mine, token, t))

\* A mutant of Expired: tokens never expire
ExpiredNever(age) == FALSE

\* time.time() - token_time > 3600
Expired(age) == age > TokenTTL

\* A mutant of Consume: a token that validates stays in the store
ConsumeKeeps(toks, user_id, token) == toks

\* del CSRFProtection.tokens[user_id][token]
Consume(toks, user_id, token) == [toks EXCEPT ![user_id] = Del(@, token)]

\* A mutant of validate_token: the token is looked up under every principal
validate_token_global(toks, user_id, token, t) ==
    IF user_id = NoUser \/ token = NoToken
    THEN [result |-> FALSE, tokens |-> toks]
    ELSE IF \A u \in DOMAIN toks : token \notin DOMAIN toks[u]
    THEN [result |-> FALSE, tokens |-> toks]
    ELSE LET u == CHOOSE x \in DOMAIN toks : token \in DOMAIN toks[x]
         IN  IF Expired(t - toks[u][token])
             THEN [result |-> FALSE, tokens |-> [toks EXCEPT ![u] = Del(@, token)]]
             ELSE [result |-> TRUE, tokens |-> Consume(toks, u, token)]

\* validate_token(user_id, token) at time t: the result and the store it leaves
validate_token(toks, user_id, token, t) ==
    IF user_id = NoUser \/ token = NoToken
    THEN [result |-> FALSE, tokens |-> toks]
    ELSE IF user_id \notin DOMAIN toks
    THEN [result |-> FALSE, tokens |-> toks]
    ELSE IF token \notin DOMAIN toks[user_id]
    THEN [result |-> FALSE, tokens |-> toks]
    ELSE IF Expired(t - toks[user_id][token])
    THEN [result |-> FALSE, tokens |-> [toks EXCEPT ![user_id] = Del(@, token)]]
    ELSE [result |-> TRUE, tokens |-> Consume(toks, user_id, token)]

CsrfTick ==
    /\ steps < MaxCsrfSteps
    /\ \E d \in CsrfDeltas : now' = now + d
    /\ steps' = steps + 1
    /\ UNCHANGED <<limiterVars, csrfVars, dbVars, resp, concVars>>

\* issue(p): one call of generate_token
Issue ==
    /\ steps < MaxCsrfSteps
    /\ next_token <= MaxTokens
    /\ \E p \in Principals :
         /\ tokens' = generate_token(tokens, p, next_token, now)
         /\ issued' = Put(issued, next_token, [user |-> p, at |-> now])
         /\ resp' = [op |-> "issue", user |-> p, token |-> next_token]
    /\ next_token' = next_token + 1
    /\ steps' = steps + 1
    /\ UNCHANGED <<now, limiterVars, accepted, dbVars, concVars>>

\* validate(p, t): one call of validate_token, with any user and token value
Validate ==
    /\ steps < MaxCsrfSteps
    /\ \E p \in Principals \cup {NoUser}, token \in 0 .. MaxTokens :
         \E r \in {validate_token(tokens, p, token, now)} :
             /\ tokens' = r.tokens
             /\ accepted' = IF r.result
                            THEN Put(accepted, <<p, token>>,
                                     IF <<p, token>> \in DOMAIN accepted
                                     THEN accepted[<<p, token>>] + 1 ELSE 1)
                            ELSE accepted
             /\ resp' = [op |-> "validate", user |-> p, token |-> token,
                         result |-> r.result, at |-> now,
                         held |-> p \in DOMAIN tokens /\ token \in DOMAIN tokens[p]]
    /\ steps' = steps + 1
    /\ UNCHANGED <<now, limiterVars, next_token, issued, dbVars, concVars>>

InitCsrf ==
    /\ now = 0
    /\ steps = 0
    /\ max_requests = 10
    /\ window_seconds = 300
    /\ LimiterStart
    /\ CsrfStart
    /\ DbStart
    /\ Sequential
    /\ resp = NoResp

NextCsrf == CsrfTick \/ Issue \/ Validate

SpecCsrf == InitCsrf /\ [][NextCsrf]_vars

\* C3: a token that one validate(p, t) call accepted is accepted by no later
\* validate(p, t) call: no pair (p, t) is accepted twice.
C3_SingleUse ==
    \A pt \in DOMAIN accepted : accepted[pt] <= 1

\* A validate call on a token that was accepted before has just returned False,
\* after another token was issued in between.
C3_Witness ==
    /\ resp.op = "validate" /\ ~resp.result
    /\ <<resp.user, resp.token>> \in DOMAIN accepted
    /\ next_token > resp.token + 1

\* C4: a validate(p, t) call made more than the TTL after issue(p) returned t
\* returns False and leaves t out of p's token map.
C4_ExpiredRejected ==
    (/\ resp.op = "validate"
     /\ resp.token \in DOMAIN issued
     /\ issued[resp.token].user = resp.user
     /\ resp.at - issued[resp.token].at > TokenTTL)
    => /\ ~resp.result
       /\ resp.token \notin DOMAIN tokens[resp.user]

\* A token never validated before and still in the store was refused because
\* it was older than the TTL.
C4_Witness ==
    /\ resp.op = "validate" /\ ~resp.result /\ resp.held
    /\ resp.token \in DOMAIN issued
    /\ issued[resp.token].user = resp.user
    /\ resp.at - issued[resp.token].at > TokenTTL
    /\ <<resp.user, resp.token>> \notin DOMAIN accepted

----------------------------------------------------------------------------
(* Request handling shared by the handlers *)

\* The client address headers and peer address a request may carry
Headers ==
    {[xff |-> "", real_ip |-> "", peer |-> "10.0.0.1"],
     [xff |-> "", real_ip |-> "10.0.0.2", peer |-> "10.0.0.1"],
     [xff |-> "10.0.0.2", real_ip |-> "", peer |-> "10.0.0.1"]}

\* get_client_ip: X-Forwarded-For, then X-Real-IP, then the peer address
get_client_ip(h) ==
    IF h.xff # "" THEN h.xff
    ELSE IF h.real_ip # "" THEN h.real_ip
    ELSE h.peer

\* A mutant of require_role: any signed-in user passes
require_role_signed_in(caller, allowed_roles) ==
    IF caller = Anonymous THEN 302 ELSE 0

\* require_role: 0 when the user passes, else the status of the refusal
require_role(caller, allowed_roles) ==
    IF caller = Anonymous THEN 302
    ELSE IF Users[caller] \notin allowed_roles THEN 403
    ELSE 0

\* The Retry-After header of a response that carries none
NoRetry == 0

\* A mutant of check_rate_limit: Retry-After counts minutes
check_rate_limit_minutes(h, endpoint_name, maxreq, window) ==
    LET r == is_rate_limited(requests, last_cleanup,
                             <<get_client_ip(h), endpoint_name>>, maxreq, window, now)
    IN  [limited |-> r.limited, requests |-> r.requests,
         last_cleanup |-> r.last_cleanup,
         code |-> IF r.limited THEN 429 ELSE 0,
         retry_after |-> IF r.limited THEN window \div 60 ELSE NoRetry]

\* A mutant of check_rate_limit: keyed by the client address alone
check_rate_limit_per_client(h, endpoint_name, maxreq, window) ==
    LET r == is_rate_limited(requests, last_cleanup,
                             <<get_client_ip(h), "">>, maxreq, window, now)
    IN  [limited |-> r.limited, requests |-> r.requests,
         last_cleanup |-> r.last_cleanup,
         code |-> IF r.limited THEN 429 ELSE 0,
         retry_after |-> IF r.limited THEN window ELSE NoRetry]

\* check_rate_limit: is_rate_limited on the key f"{client_ip}:{endpoint_name}";
\* a limited request is answered 429 with Retry-After: window_seconds
check_rate_limit(h, endpoint_name, maxreq, window) ==
    LET r == is_rate_limited(requests, last_cleanup,
                             <<get_client_ip(h), endpoint_name>>, maxreq, window, now)
    IN  [limited |-> r.limited, requests |-> r.requests,
         last_cleanup |-> r.last_cleanup,
         code |-> IF r.limited THEN 429 ELSE 0,
         retry_after |-> IF r.limited THEN window ELSE NoRetry]

----------------------------------------------------------------------------
(* SecurityValidator on the texts the requests of this model carry *)

InjectionTexts == {"x'; DROP TABLE users"}
SpamTexts == {"win a prize now"}

\* check_sql_injection
check_sql_injection(text) == text \in InjectionTexts

\* A mutant of sanitize_input: a flagged text is passed on as it is
sanitize_input_keeps(text) == text

\* sanitize_input: none of the texts holds a control character, a tag or
\* surrounding blanks, and none is longer than max_length
sanitize_input(text) ==
    IF text = "" THEN ""
    ELSE IF check_sql_injection(text) THEN ""
    ELSE text

\* detect_spam_patterns
detect_spam_patterns(text) == text # "" /\ text \in SpamTexts

----------------------------------------------------------------------------
(* handle_activity_submission *)

ValidData ==
    [activity_name |-> "Kids Yoga", school_name |-> "Harmony Center",
     category |-> "Sports", city |-> "Sofia", description |-> "Fun for all"]

\* The JSON bodies a submission may carry
Payloads ==
    {ValidData,
     [ValidData EXCEPT !.description = ""],
     [ValidData EXCEPT !.school_name = "x'; DROP TABLE users"],
     [ValidData EXCEPT !.city = "x'; DROP TABLE users"],
     [ValidData EXCEPT !.description = "win a prize now"]}

required_fields == <<"activity_name", "school_name", "category", "city">>

\* The loop over required_fields from field i on: 0 when every field passes,
\* else the status of the response that ends the request
RECURSIVE RequiredFieldsFrom(_, _)
RequiredFieldsFrom(data, i) ==
    IF i > Len(required_fields) THEN 0
    ELSE LET value == sanitize_input(data[required_fields[i]])
         IN  IF value = "" THEN 200
             ELSE IF detect_spam_patterns(value) THEN 400
             ELSE RequiredFieldsFrom(data, i + 1)

\* INSERT INTO submitted_activities: status and created_at take their defaults
InsertSubmission(d, id, user_id, data, t) ==
    [d EXCEPT !.submitted_activities =
        Put(@, id,
            [submitted_by |-> user_id,
             activity_name |-> sanitize_input(data.activity_name),
             school_name |-> sanitize_input(data.school_name),
             category |-> sanitize_input(data.category),
             city |-> sanitize_input(data.city),
             description |-> sanitize_input(data.description),
             status |-> "pending",
             created_at |-> t])]

\* Table submitted_activities does not exist yet: no submission was made on
\* this database
NoTable == "absent"

\* CREATE TABLE IF NOT EXISTS submitted_activities: an absent table is created
\* with the handler's own columns, an existing one is left as it is
create_table(lay) == IF lay = NoTable THEN "own" ELSE lay

\* A mutant of handle_activity_submission: the fields are validated before
\* the rate check, so a rejected submission is not counted
handle_activity_submission_validates_first(caller, h, data, io_error) ==
    LET refused == require_role(caller, {"parent"})
        rl == check_rate_limit(h, <<"submit_activity", caller>>, 3, 3600)
        key == <<get_client_ip(h), <<"submit_activity", caller>>>>
        same == [code |-> 0, success |-> FALSE, retry_after |-> NoRetry, db |-> db,
                 layout |-> layout,
                 requests |-> requests, last_cleanup |-> last_cleanup,
                 admitted |-> admitted, denied |-> denied, next_id |-> next_id]
        checked == [same EXCEPT !.requests = rl.requests,
                                !.last_cleanup = rl.last_cleanup,
                                !.admitted = Log(admitted, key, rl.limited, now),
                                !.denied = LogDenied(denied, key, rl.limited, now)]
        description == sanitize_input(data.description)
    IN  IF refused # 0 THEN [same EXCEPT !.code = refused]
        ELSE IF RequiredFieldsFrom(data, 1) # 0
        THEN [same EXCEPT !.code = RequiredFieldsFrom(data, 1)]
        ELSE IF description # "" /\ detect_spam_patterns(description)
        THEN [same EXCEPT !.code = 400]
        ELSE IF rl.limited
        THEN [checked EXCEPT !.code = rl.code, !.retry_after = rl.retry_after]
        ELSE IF io_error
        THEN [checked EXCEPT !.code = 200, !.layout = create_table(layout)]
        ELSE [checked EXCEPT !.code = 200, !.success = TRUE,
                             !.layout = create_table(layout),
                             !.db = InsertSubmission(db, next_id, caller, data, now),
                             !.next_id = next_id + 1]

\* handle_activity_submission: the response and the state it leaves.  io_error
\* is a failure of the database write, which the handler reports with its
\* default status.
handle_activity_submission(caller, h, data, io_error) ==
    LET refused == require_role(caller, {"parent"})
        rl == check_rate_limit(h, <<"submit_activity", caller>>, 3, 3600)
        key == <<get_client_ip(h), <<"submit_activity", caller>>>>
        same == [code |-> 0, success |-> FALSE, retry_after |-> NoRetry, db |-> db,
                 layout |-> layout,
                 requests |-> requests, last_cleanup |-> last_cleanup,
                 admitted |-> admitted, denied |-> denied, next_id |-> next_id]
        checked == [same EXCEPT !.requests = rl.requests,
                                !.last_cleanup = rl.last_cleanup,
                                !.admitted = Log(admitted, key, rl.limited, now),
                                !.denied = LogDenied(denied, key, rl.limited, now)]
        description == sanitize_input(data.description)
    IN  IF refused # 0 THEN [same EXCEPT !.code = refused]
        ELSE IF rl.limited
        THEN [checked EXCEPT !.code = rl.code, !.retry_after = rl.retry_after]
        ELSE IF RequiredFieldsFrom(data, 1) # 0
        THEN [checked EXCEPT !.code = RequiredFieldsFrom(data, 1)]
        ELSE IF description # "" /\ detect_spam_patterns(description)
        THEN [checked EXCEPT !.code = 400]
        ELSE IF io_error
        THEN [checked EXCEPT !.code = 200, !.layout = create_table(layout)]
        ELSE [checked EXCEPT !.code = 200, !.success = TRUE,
                             !.layout = create_table(layout),
                             !.db = InsertSubmission(db, next_id, caller, data, now),
                             !.next_id = next_id + 1]

\* One request to /api/submit-activity.  Inputs the handler never reads (the
\* headers and body of a request refused for its role, a write error of a
\* request that writes nothing) are not varied.
Submit ==
    /\ steps < MaxModSteps
    /\ \E caller \in Callers :
       \E h \in IF require_role(caller, {"parent"}) = 0 THEN Headers
                 ELSE {CHOOSE x \in Headers : x.xff = "" /\ x.real_ip = ""} :
       \E data \in IF require_role(caller, {"parent"}) = 0 THEN Payloads ELSE {ValidData} :
       \E io_error \in IF handle_activity_submission(caller, h, data, FALSE).success
                        THEN BOOLEAN ELSE {FALSE} :
         \E r \in {handle_activity_submission(caller, h, data, io_error)} :
             /\ db' = r.db
             /\ layout' = r.layout
             /\ requests' = r.requests
             /\ last_cleanup' = r.last_cleanup
             /\ admitted' = r.admitted
             /\ denied' = r.denied
             /\ unswept' = IF require_role(caller, {"parent"}) # 0 THEN unswept
                            ELSE Unswept(unswept,
                                         <<get_client_ip(h), <<"submit_activity", caller>>>>,
                                         3, 3600, now)
             /\ next_id' = r.next_id
             /\ resp' = [op |-> "submit", seq |-> steps, caller |-> caller,
                         ip |-> get_client_ip(h), data |-> data,
                         io_error |-> io_error, code |-> r.code,
                         retry_after |-> r.retry_after, success |-> r.success]
    /\ steps' = steps + 1
    /\ UNCHANGED <<now, max_requests, window_seconds, csrfVars, concVars>>

----------------------------------------------------------------------------
(* handle_moderate_submission *)

Layouts == {"own", "deployed"}
Null == "NULL"
NoId == 0
NoAction == ""
Actions == {"approve", "reject", "delete", NoAction}

\* Where a database error strikes the statements of one resolve request
FailPoints == {"none", "venue", "offering", "update", "commit"}

\* The tuple SELECT * yields for a submission: the columns of the table that
\* submit creates, or those of the deployed table (test_submission_check.py),
\* whose further columns submit leaves NULL
Row(lay, id, r) ==
    IF lay = "own"
    THEN <<id, r.submitted_by, r.activity_name, r.school_name, r.category, r.city,
           r.description, r.status, r.created_at>>
    ELSE <<id, r.submitted_by, r.activity_name, r.school_name, r.category, r.city,
           Null, Null, Null, r.description, Null, Null, r.status, r.created_at>>

\* submission[i], counted from 0
Col(row, i) == row[i + 1]

\* x or ''
OrEmpty(x) == IF x = Null THEN "" ELSE x

\* A mutant of PendingMatch: the status of the submission is not looked at
PendingMatchAny(d, submission_id) == submission_id \in DOMAIN d.submitted_activities

\* SELECT * FROM submitted_activities WHERE id = ? AND status = 'pending'
PendingMatch(d, submission_id) ==
    /\ submission_id \in DOMAIN d.submitted_activities
    /\ d.submitted_activities[submission_id].status = "pending"

\* A mutant of InsertSchool: the submitter becomes the owner of the venue
InsertSchoolBySubmitter(d, school_id, row, user_id) ==
    [d EXCEPT !.schools =
        Put(@, school_id,
            [name |-> Col(row, 3), description |-> OrEmpty(Col(row, 9)),
             city |-> Col(row, 5), verified |-> 1, created_by |-> Col(row, 1),
             src |-> Col(row, 0)])]

\* A mutant of InsertSchool: no row is added when the catalog already holds a
\* venue of that name in that city
InsertSchoolOnce(d, school_id, row, user_id) ==
    IF \E v \in DOMAIN d.schools :
          d.schools[v].name = Col(row, 3) /\ d.schools[v].city = Col(row, 5)
    THEN d
    ELSE [d EXCEPT !.schools =
            Put(@, school_id,
                [name |-> Col(row, 3), description |-> OrEmpty(Col(row, 9)),
                 city |-> Col(row, 5), verified |-> 1, created_by |-> user_id,
                 src |-> Col(row, 0)])]

\* INSERT INTO schools; src records the submission the row was created for
InsertSchool(d, school_id, row, user_id) ==
    [d EXCEPT !.schools =
        Put(@, school_id,
            [name |-> Col(row, 3), description |-> OrEmpty(Col(row, 9)),
             city |-> Col(row, 5), verified |-> 1, created_by |-> user_id,
             src |-> Col(row, 0)])]

\* INSERT INTO activities; src records the submission the row was created for
InsertActivity(d, activity_id, school_id, row, user_id) ==
    [d EXCEPT !.activities =
        Put(@, activity_id,
            [school_id |-> school_id, title |-> Col(row, 2),
             description |-> OrEmpty(Col(row, 9)), category |-> Col(row, 4),
             age_min |-> 3, age_max |-> 18, active |-> 1, verified |-> 1,
             created_by |-> user_id, source |-> "parent", src |-> Col(row, 0)])]

\* A mutant of SetStatus: the UPDATE is lost
SetStatusLost(d, submission_id, status) == d

\* UPDATE submitted_activities SET status = ? WHERE id = ?
SetStatus(d, submission_id, status) ==
    [d EXCEPT !.submitted_activities[submission_id].status = status]

\* A mutant of Abandon: every statement is committed as it runs
AbandonKeeps(committed, tx) == tx

\* The exception handler: the connection is dropped without a commit, and its
\* open transaction tx is rolled back
Abandon(committed, tx) == committed

\* The statements of approve on a connection that sees d, up to the failure
Approve(d, submission_id, user_id, fail) ==
    LET row == Row(layout, submission_id, d.submitted_activities[submission_id])
        tx1 == InsertSchool(d, next_id, row, user_id)
        tx2 == InsertActivity(tx1, next_id + 1, next_id, row, user_id)
        tx3 == SetStatus(tx2, submission_id, "approved")
    IN  IF Len(row) <= 9 THEN [code |-> 500, db |-> Abandon(d, d)]
        ELSE IF fail = "venue" THEN [code |-> 500, db |-> Abandon(d, d)]
        ELSE IF fail = "offering" THEN [code |-> 500, db |-> Abandon(d, tx1)]
        ELSE IF fail = "update" THEN [code |-> 500, db |-> Abandon(d, tx2)]
        ELSE IF fail = "commit" THEN [code |-> 500, db |-> Abandon(d, tx3)]
        ELSE [code |-> 200, db |-> tx3]

\* A mutant of Reject: the UPDATE has no WHERE clause
RejectEvery(d, submission_id, fail) ==
    LET tx1 == [d EXCEPT !.submitted_activities =
                   [id \in DOMAIN @ |-> [@[id] EXCEPT !.status = "rejected"]]]
    IN  IF fail = "update" THEN [code |-> 500, db |-> Abandon(d, d)]
        ELSE IF fail = "commit" THEN [code |-> 500, db |-> Abandon(d, tx1)]
        ELSE [code |-> 200, db |-> tx1]

\* The statements of reject
Reject(d, submission_id, fail) ==
    LET tx1 == SetStatus(d, submission_id, "rejected")
    IN  IF fail = "update" THEN [code |-> 500, db |-> Abandon(d, d)]
        ELSE IF fail = "commit" THEN [code |-> 500, db |-> Abandon(d, tx1)]
        ELSE [code |-> 200, db |-> tx1]

\* handle_moderate_submission: the status of the response and the database
handle_moderate_submission(caller, submission_id, action, fail) ==
    LET refused == require_role(caller, {"admin"})
    IN  IF refused # 0 THEN [code |-> refused, db |-> db]
        ELSE IF submission_id = NoId \/ action = NoAction THEN [code |-> 400, db |-> db]
        ELSE IF action \notin {"approve", "reject"} THEN [code |-> 400, db |-> db]
        ELSE IF layout = NoTable THEN [code |-> 500, db |-> db]
        ELSE IF ~PendingMatch(db, submission_id) THEN [code |-> 404, db |-> db]
        ELSE IF action = "approve" THEN Approve(db, submission_id, caller, fail)
        ELSE Reject(db, submission_id, fail)

\* The status of a submission id, "none" when there is no such row
StatusOf(d, submission_id) ==
    IF submission_id \in DOMAIN d.submitted_activities
    THEN d.submitted_activities[submission_id].status
    ELSE "none"

\* The failure points the statements of a request can reach
Reachable(caller, submission_id, action) ==
    IF require_role(caller, {"admin"}) # 0 \/ ~PendingMatch(db, submission_id)
    THEN {"none"}
    ELSE IF action = "approve" THEN FailPoints
    ELSE IF action = "reject" THEN {"none", "update", "commit"}
    ELSE {"none"}

\* One request to /api/moderate-submission.  Inputs the handler never reads
\* (the body of a request refused for its role, a database error at a
\* statement the request does not reach) are not varied.
Resolve ==
    /\ steps < MaxModSteps
    /\ \E caller \in Callers :
       \E action \in IF require_role(caller, {"admin"}) = 0 THEN Actions ELSE {"approve"} :
       \E submission_id \in IF require_role(caller, {"admin"}) = 0
                             THEN DOMAIN db.submitted_activities \cup {NoId, next_id}
                             ELSE {NoId} :
       \E fail \in Reachable(caller, submission_id, action) :
         \E r \in {handle_moderate_submission(caller, submission_id, action, fail)} :
             /\ db' = r.db
             /\ next_id' = IF r.code = 200 /\ action = "approve"
                           THEN next_id + 2 ELSE next_id
             /\ resp' = [op |-> "resolve", seq |-> steps, caller |-> caller,
                         code |-> r.code,
                         submission_id |-> submission_id, action |-> action,
                         fail |-> fail, prior |-> StatusOf(db, submission_id)]
    /\ steps' = steps + 1
    /\ UNCHANGED <<now, limiterVars, csrfVars, layout, concVars>>

ModTick ==
    /\ steps < MaxModSteps
    /\ now' = now + 3600
    /\ steps' = steps + 1
    /\ UNCHANGED <<limiterVars, csrfVars, dbVars, resp, concVars>>

InitMod ==
    /\ now = 0
    /\ steps = 0
    /\ max_requests = 3
    /\ window_seconds = 3600
    /\ LimiterStart
    /\ CsrfStart
    /\ layout \in Layouts \cup {NoTable}
    /\ db = SeedDb
    /\ next_id = FirstId
    /\ Sequential
    /\ resp = NoResp

NextMod == Submit \/ Resolve \/ ModTick

Spec == InitMod /\ [][NextMod]_vars

----------------------------------------------------------------------------
(* Properties of the submission lifecycle *)

\* The venues and the offerings that exist for a submission
VenuesFor(submission_id) ==
    {v \in DOMAIN db.schools : db.schools[v].src = submission_id}
OfferingsFor(submission_id) ==
    {a \in DOMAIN db.activities : db.activities[a].src = submission_id}

\* The last request was a well-formed resolve by an administrator
ResolveAnswered ==
    /\ resp.op = "resolve"
    /\ resp.caller # Anonymous /\ Users[resp.caller] = "admin"
    /\ resp.action \in {"approve", "reject"}

\* C2: a successful approve leaves exactly one venue and one offering for the
\* submission, no submission ever has more than one of either, and a resolve
\* on an approved submission, with either action, is answered 404.
C2_ApprovedOnce ==
    /\ \A sid \in DOMAIN db.submitted_activities :
          /\ Cardinality(VenuesFor(sid)) <= 1
          /\ Cardinality(OfferingsFor(sid)) <= 1
    /\ (ResolveAnswered /\ resp.action = "approve" /\ resp.code = 200)
          => /\ Cardinality(VenuesFor(resp.submission_id)) = 1
             /\ Cardinality(OfferingsFor(resp.submission_id)) = 1
    /\ (ResolveAnswered /\ resp.prior = "approved") => resp.code = 404

\* An approved submission was resolved again and the request was answered 404
C2_Witness ==
    /\ ResolveAnswered /\ resp.prior = "approved" /\ resp.code = 404
    /\ Cardinality(VenuesFor(resp.submission_id)) = 1
    /\ Cardinality(OfferingsFor(resp.submission_id)) = 1

\* C6: a submission row is created pending, and once it is approved or
\* rejected no submit or resolve request changes any field of it.
C6_ResolvedImmutable ==
    [][/\ \A sid \in DOMAIN db.submitted_activities :
             db.submitted_activities[sid].status # "pending"
             => /\ sid \in DOMAIN db'.submitted_activities
                /\ db'.submitted_activities[sid] = db.submitted_activities[sid]
       /\ \A sid \in DOMAIN db'.submitted_activities \ DOMAIN db.submitted_activities :
             db'.submitted_activities[sid].status = "pending"]_vars

\* A rejected submission was resolved again, this time with approve
C6_Witness ==
    /\ ResolveAnswered /\ resp.prior = "rejected" /\ resp.action = "approve"
    /\ db.submitted_activities[resp.submission_id].status = "rejected"

\* C7: in every committed state a submission is approved exactly when its
\* venue and its offering both exist, neither exists without the other, and
\* a resolve request struck by a database error is answered 500 and leaves the
\* submission pending.
C7_AllOrNothing ==
    /\ \A sid \in DOMAIN db.submitted_activities :
          /\ db.submitted_activities[sid].status = "approved"
                <=> (VenuesFor(sid) # {} /\ OfferingsFor(sid) # {})
          /\ VenuesFor(sid) # {} <=> OfferingsFor(sid) # {}
    /\ (resp.op = "resolve" /\ resp.fail # "none")
          => /\ resp.code = 500
             /\ db.submitted_activities[resp.submission_id].status = "pending"

\* The status update of an approve failed after both inserts had run, and
\* neither insert is in the database
C7_Witness ==
    /\ resp.op = "resolve" /\ resp.action = "approve" /\ resp.fail = "update"
    /\ layout = "deployed" /\ resp.code = 500
    /\ VenuesFor(resp.submission_id) = {}
    /\ OfferingsFor(resp.submission_id) = {}

----------------------------------------------------------------------------
(* handle_agency_claim *)

\* A mutant of PendingClaimExists: the check for a pending claim is missing
PendingClaimExistsNever(d, user_id, agency_id) == FALSE

\* SELECT id FROM user_agency_claims
\* WHERE user_id = ? AND agency_id = ? AND status = 'pending'
PendingClaimExists(d, user_id, agency_id) ==
    \E c \in DOMAIN d.user_agency_claims :
        /\ d.user_agency_claims[c].user_id = user_id
        /\ d.user_agency_claims[c].agency_id = agency_id
        /\ d.user_agency_claims[c].status = "pending"

\* INSERT INTO user_agency_claims (id, user_id, agency_id, status)
InsertClaim(d, claim_id, user_id, agency_id) ==
    [d EXCEPT !.user_agency_claims =
        Put(@, claim_id,
            [user_id |-> user_id, agency_id |-> agency_id, status |-> "pending"])]

\* handle_agency_claim: the status of the response and the database.  io_error
\* is a failure of the INSERT or of the commit.
handle_agency_claim(caller, agency_id, io_error) ==
    LET refused == require_role(caller, {"school"})
    IN  IF refused # 0 THEN [code |-> refused, db |-> db]
        ELSE IF agency_id = NoId THEN [code |-> 400, db |-> db]
        ELSE IF agency_id \notin DOMAIN db.schools THEN [code |-> 404, db |-> db]
        ELSE IF PendingClaimExists(db, caller, agency_id) THEN [code |-> 400, db |-> db]
        ELSE IF io_error
        THEN [code |-> 500, db |-> Abandon(db, InsertClaim(db, next_id, caller, agency_id))]
        ELSE [code |-> 200, db |-> InsertClaim(db, next_id, caller, agency_id)]

\* One request to /api/claim-agency.  Inputs the handler never reads (the body
\* of a request refused for its role, a write error of a request that writes
\* nothing) are not varied.
Claim ==
    /\ steps < MaxClaimSteps
    /\ \E caller \in Callers :
       \E agency_id \in IF require_role(caller, {"school"}) = 0
                         THEN DOMAIN db.schools \cup {NoId, next_id}
                         ELSE {NoId} :
       \E io_error \in IF handle_agency_claim(caller, agency_id, FALSE).code = 200
                        THEN BOOLEAN ELSE {FALSE} :
       \E r \in {handle_agency_claim(caller, agency_id, io_error)} :
         /\ db' = r.db
         /\ next_id' = IF r.code = 200 THEN next_id + 1 ELSE next_id
         /\ resp' = [op |-> "claim", caller |-> caller, agency_id |-> agency_id,
                     code |-> r.code]
    /\ steps' = steps + 1
    /\ UNCHANGED <<now, limiterVars, csrfVars, layout, concVars>>

\* The administrative collaborator resolves a pending claim
AdminResolveClaim ==
    /\ steps < MaxClaimSteps
    /\ \E c \in DOMAIN db.user_agency_claims, outcome \in {"approved", "rejected"} :
         /\ db.user_agency_claims[c].status = "pending"
         /\ db' = [db EXCEPT !.user_agency_claims[c].status = outcome]
         /\ resp' = [op |-> "admin_resolve_claim", claim_id |-> c, code |-> 200]
    /\ steps' = steps + 1
    /\ UNCHANGED <<now, limiterVars, csrfVars, layout, next_id, concVars>>

\* The second query of serve_agency_management_page: the agencies whose
\* created_by is not the user and on which the user has no claim row.  The
\* catalog of this model is shorter than the LIMIT of 10.
available_agencies(d, user_id) ==
    {e \in DOMAIN d.schools :
        /\ d.schools[e].created_by # user_id
        /\ e \notin {d.user_agency_claims[c].agency_id :
                        c \in {x \in DOMAIN d.user_agency_claims :
                                  d.user_agency_claims[x].user_id = user_id}}}

\* One request to the agency management page
ListClaimable ==
    /\ steps < MaxClaimSteps
    /\ \E caller \in Callers :
         resp' = IF require_role(caller, {"school"}) # 0
                 THEN [op |-> "list", caller |-> caller,
                       code |-> require_role(caller, {"school"}), available |-> {}]
                 ELSE [op |-> "list", caller |-> caller, code |-> 200,
                       available |-> available_agencies(db, caller)]
    /\ steps' = steps + 1
    /\ UNCHANGED <<now, limiterVars, csrfVars, dbVars, concVars>>

InitClaim ==
    /\ now = 0
    /\ steps = 0
    /\ max_requests = 10
    /\ window_seconds = 300
    /\ LimiterStart
    /\ CsrfStart
    /\ DbStart
    /\ Sequential
    /\ resp = NoResp

NextClaim == Claim \/ AdminResolveClaim \/ ListClaimable

SpecClaim == InitClaim /\ [][NextClaim]_vars

\* The pending claims of a claimant on a target
PendingClaims(user_id, agency_id) ==
    {c \in DOMAIN db.user_agency_claims :
        /\ db.user_agency_claims[c].user_id = user_id
        /\ db.user_agency_claims[c].agency_id = agency_id
        /\ db.user_agency_claims[c].status = "pending"}

\* C5: no (claimant, target) pair ever has more than one pending claim, and a
\* claim request made while the caller has a pending claim on the target is
\* answered 400 and leaves the database as it was.
C5_OnePendingClaim ==
    /\ [](\A u \in DOMAIN Users : \A e \in DOMAIN db.schools :
             Cardinality(PendingClaims(u, e)) <= 1)
    /\ [][(/\ steps' = steps + 1
           /\ resp'.op = "claim"
           /\ PendingClaims(resp'.caller, resp'.agency_id) # {})
          => (resp'.code = 400 /\ db' = db)]_vars

\* A second claim on a target was refused while the first was pending, after
\* an earlier claim of the same pair had been resolved by the administrator
C5_Witness ==
    /\ resp.op = "claim" /\ resp.code = 400 /\ resp.agency_id # NoId
    /\ Cardinality(PendingClaims(resp.caller, resp.agency_id)) = 1
    /\ \E c \in DOMAIN db.user_agency_claims :
          /\ db.user_agency_claims[c].user_id = resp.caller
          /\ db.user_agency_claims[c].agency_id = resp.agency_id
          /\ db.user_agency_claims[c].status # "pending"

----------------------------------------------------------------------------
(* Requests handled concurrently, each on its own sqlite connection.  A    *)
(* step is one statement of a handler.  A SELECT reads the committed       *)
(* database; the first INSERT or UPDATE of a connection opens its          *)
(* transaction and takes the write lock, which the commit releases; a      *)
(* connection that finds the lock taken waits, and raises "database is     *)
(* locked" when its timeout runs out.                                      *)

Procs == 1 .. NProcs

Idle ==
    [pc |-> "idle", caller |-> Anonymous, target |-> NoId, action |-> NoAction,
     row |-> <<>>, tx |-> SeedDb, new_id |-> NoId, code |-> 0]

\* The request of process p ends with a response of status code
Done(p, code) == [procs EXCEPT ![p].pc = "done", ![p].code = code]

\* The database a connection writes to: its open transaction, or the
\* committed database when it opens one
Base(p) == IF writer = p THEN procs[p].tx ELSE db

\* handle_moderate_submission up to its SELECT: the role and parameter checks
R_Begin ==
    \E p \in Procs :
       /\ procs[p].pc = "idle"
       /\ \E caller \in Callers :
          \E action \in IF require_role(caller, {"admin"}) = 0 THEN Actions ELSE {"approve"} :
          \E submission_id \in IF require_role(caller, {"admin"}) = 0
                                THEN DOMAIN db.submitted_activities \cup {NoId}
                                ELSE {NoId} :
            LET rq == [procs[p] EXCEPT !.caller = caller, !.target = submission_id,
                                       !.action = action]
                refused == require_role(caller, {"admin"})
            IN  procs' = [procs EXCEPT ![p] =
                   IF refused # 0 THEN [rq EXCEPT !.pc = "done", !.code = refused]
                   ELSE IF submission_id = NoId \/ action = NoAction
                   THEN [rq EXCEPT !.pc = "done", !.code = 400]
                   ELSE IF action \notin {"approve", "reject"}
                   THEN [rq EXCEPT !.pc = "done", !.code = 400]
                   ELSE [rq EXCEPT !.pc = "select"]]
       /\ UNCHANGED <<now, steps, limiterVars, csrfVars, dbVars, writer, resp>>

\* SELECT * FROM submitted_activities WHERE id = ? AND status = 'pending'
R_Select ==
    \E p \in Procs :
       /\ procs[p].pc = "select"
       /\ procs' =
            IF ~PendingMatch(db, procs[p].target) THEN Done(p, 404)
            ELSE [procs EXCEPT
                    ![p].row = Row(layout, procs[p].target,
                                   db.submitted_activities[procs[p].target]),
                    ![p].pc = IF procs[p].action = "approve"
                              THEN "insert_school" ELSE "update"]
       /\ UNCHANGED <<now, steps, limiterVars, csrfVars, dbVars, writer, resp>>

\* INSERT INTO schools, whose parameters raise IndexError on a short row
R_InsertSchool ==
    \E p \in Procs :
       /\ procs[p].pc = "insert_school"
       /\ IF Len(procs[p].row) <= 9
          THEN /\ procs' = Done(p, 500)
               /\ UNCHANGED <<writer, next_id>>
          ELSE /\ writer \in {0, p}
               /\ writer' = p
               /\ procs' = [procs EXCEPT
                     ![p].tx = InsertSchool(Base(p), next_id, procs[p].row, procs[p].caller),
                     ![p].new_id = next_id,
                     ![p].pc = "insert_activity"]
               /\ next_id' = next_id + 2
       /\ UNCHANGED <<now, steps, limiterVars, csrfVars, layout, db, resp>>

\* INSERT INTO activities
R_InsertActivity ==
    \E p \in Procs :
       /\ procs[p].pc = "insert_activity"
       /\ procs' = [procs EXCEPT
             ![p].tx = InsertActivity(procs[p].tx, procs[p].new_id + 1, procs[p].new_id,
                                      procs[p].row, procs[p].caller),
             ![p].pc = "update"]
       /\ UNCHANGED <<now, steps, limiterVars, csrfVars, dbVars, writer, resp>>

\* UPDATE submitted_activities SET status = ? WHERE id = ?
R_Update ==
    \E p \in Procs :
       /\ procs[p].pc = "update"
       /\ writer \in {0, p}
       /\ writer' = p
       /\ procs' = [procs EXCEPT
             ![p].tx = SetStatus(Base(p), procs[p].target,
                                 IF procs[p].action = "approve"
                                 THEN "approved" ELSE "rejected"),
             ![p].pc = "commit"]
       /\ UNCHANGED <<now, steps, limiterVars, csrfVars, dbVars, resp>>

\* conn.commit(), and the response
R_Commit ==
    \E p \in Procs :
       /\ procs[p].pc = "commit"
       /\ db' = procs[p].tx
       /\ writer' = 0
       /\ procs' = Done(p, 200)
       /\ UNCHANGED <<now, steps, limiterVars, csrfVars, layout, next_id, resp>>

\* The first write of a connection finds the lock taken until its timeout
R_Busy ==
    \E p \in Procs :
       /\ \/ procs[p].pc = "insert_school" /\ Len(procs[p].row) > 9
          \/ procs[p].pc = "update"
       /\ writer \notin {0, p}
       /\ procs' = Done(p, 500)
       /\ UNCHANGED <<now, steps, limiterVars, csrfVars, dbVars, writer, resp>>

\* Pending submissions as submit stores them, and no request in progress
InitResolveConc ==
    /\ now = 0
    /\ steps = 0
    /\ max_requests = 3
    /\ window_seconds = 3600
    /\ LimiterStart
    /\ CsrfStart
    /\ layout \in Layouts
    /\ \E n \in 1 .. 2 :
         /\ db = IF n = 1 THEN InsertSubmission(SeedDb, FirstId, "p1", ValidData, 0)
                 ELSE InsertSubmission(InsertSubmission(SeedDb, FirstId, "p1", ValidData, 0),
                                       FirstId + 1, "p1", ValidData, 0)
         /\ next_id = FirstId + n
    /\ procs = [p \in Procs |-> Idle]
    /\ writer = 0
    /\ resp = NoResp

NextResolveConc ==
    \/ R_Begin \/ R_Select \/ R_InsertSchool \/ R_InsertActivity
    \/ R_Update \/ R_Commit \/ R_Busy

SpecResolveConc == InitResolveConc /\ [][NextResolveConc]_vars

\* The resolve requests on a submission that were answered 200
Succeeded(submission_id) ==
    {p \in Procs : /\ procs[p].pc = "done" /\ procs[p].code = 200
                   /\ procs[p].target = submission_id}

\* C8: of the resolve requests that run concurrently on one pending
\* submission at most one succeeds, and at most one venue and one offering
\* exist for the submission.
C8_OneResolverWins ==
    \A sid \in DOMAIN db.submitted_activities :
        /\ Cardinality(Succeeded(sid)) <= 1
        /\ Cardinality(VenuesFor(sid)) <= 1
        /\ Cardinality(OfferingsFor(sid)) <= 1

----------------------------------------------------------------------------
(* handle_agency_claim, statement by statement *)

\* handle_agency_claim up to its first SELECT
C_Begin ==
    \E p \in Procs :
       /\ procs[p].pc = "idle"
       /\ \E caller \in Callers :
          \E agency_id \in IF require_role(caller, {"school"}) = 0
                            THEN DOMAIN db.schools \cup {NoId, next_id}
                            ELSE {NoId} :
            LET rq == [procs[p] EXCEPT !.caller = caller, !.target = agency_id]
                refused == require_role(caller, {"school"})
            IN  procs' = [procs EXCEPT ![p] =
                   IF refused # 0 THEN [rq EXCEPT !.pc = "done", !.code = refused]
                   ELSE IF agency_id = NoId THEN [rq EXCEPT !.pc = "done", !.code = 400]
                   ELSE [rq EXCEPT !.pc = "select_agency"]]
       /\ UNCHANGED <<now, steps, limiterVars, csrfVars, dbVars, writer, resp>>

\* SELECT name FROM schools WHERE id = ?
C_SelectAgency ==
    \E p \in Procs :
       /\ procs[p].pc = "select_agency"
       /\ procs' = IF procs[p].target \notin DOMAIN db.schools THEN Done(p, 404)
                   ELSE [procs EXCEPT ![p].pc = "select_pending"]
       /\ UNCHANGED <<now, steps, limiterVars, csrfVars, dbVars, writer, resp>>

\* SELECT id FROM user_agency_claims WHERE ... AND status = 'pending'
C_SelectPending ==
    \E p \in Procs :
       /\ procs[p].pc = "select_pending"
       /\ procs' = IF PendingClaimExists(db, procs[p].caller, procs[p].target)
                   THEN Done(p, 400)
                   ELSE [procs EXCEPT ![p].pc = "insert"]
       /\ UNCHANGED <<now, steps, limiterVars, csrfVars, dbVars, writer, resp>>

\* INSERT INTO user_agency_claims
C_Insert ==
    \E p \in Procs :
       /\ procs[p].pc = "insert"
       /\ writer \in {0, p}
       /\ writer' = p
       /\ procs' = [procs EXCEPT
             ![p].tx = InsertClaim(Base(p), next_id, procs[p].caller, procs[p].target),
             ![p].new_id = next_id,
             ![p].pc = "commit"]
       /\ next_id' = next_id + 1
       /\ UNCHANGED <<now, steps, limiterVars, csrfVars, layout, db, resp>>

\* conn.commit(), and the response
C_Commit ==
    \E p \in Procs :
       /\ procs[p].pc = "commit"
       /\ db' = procs[p].tx
       /\ writer' = 0
       /\ procs' = Done(p, 200)
       /\ UNCHANGED <<now, steps, limiterVars, csrfVars, layout, next_id, resp>>

\* The INSERT finds the lock taken until its timeout
C_Busy ==
    \E p \in Procs :
       /\ procs[p].pc = "insert"
       /\ writer \notin {0, p}
       /\ procs' = Done(p, 500)
       /\ UNCHANGED <<now, steps, limiterVars, csrfVars, dbVars, writer, resp>>

InitClaimConc ==
    /\ now = 0
    /\ steps = 0
    /\ max_requests = 10
    /\ window_seconds = 300
    /\ LimiterStart
    /\ CsrfStart
    /\ DbStart
    /\ procs = [p \in Procs |-> Idle]
    /\ writer = 0
    /\ resp = NoResp

NextClaimConc ==
    C_Begin \/ C_SelectAgency \/ C_SelectPending \/ C_Insert \/ C_Commit \/ C_Busy

SpecClaimConc == InitClaimConc /\ [][NextClaimConc]_vars

\* C9: claim requests of one principal on one target that run concurrently
\* insert at most one pending claim.
C9_AtomicClaim ==
    \A u \in DOMAIN Users : \A e \in DOMAIN db.schools :
        Cardinality(PendingClaims(u, e)) <= 1

----------------------------------------------------------------------------
(* is_rate_limited called from several threads, statement by statement *)

IdleThread ==
    [pc |-> "idle", ip |-> "", t |-> 0, recent |-> <<>>, outcome |-> "none"]

\* The call of thread p ends: "admitted", "limited", or "raised" (KeyError)
Return(p, outcome) == [procs EXCEPT ![p].pc = "done", ![p].outcome = outcome]

\* A thread calls is_rate_limited on a key
L_Begin ==
    \E p \in Procs, ip \in Keys :
       /\ steps < MaxCalls
       /\ procs[p].pc \in {"idle", "done"}
       /\ procs' = [procs EXCEPT ![p] = [IdleThread EXCEPT !.pc = "cleanup", !.ip = ip]]
       /\ steps' = steps + 1
       /\ UNCHANGED <<now, limiterVars, csrfVars, dbVars, writer, resp>>

\* self.cleanup_old_requests()
L_Cleanup ==
    \E p \in Procs :
       /\ procs[p].pc = "cleanup"
       /\ \E r \in {cleanup_old_requests(requests, last_cleanup, now)} :
            /\ requests' = r.requests
            /\ last_cleanup' = r.last_cleanup
       /\ procs' = [procs EXCEPT ![p].pc = "now"]
       /\ UNCHANGED <<now, steps, max_requests, window_seconds, admitted, denied, unswept,
                      csrfVars,
                      dbVars, writer, resp>>

\* now = time.time()
L_Now ==
    \E p \in Procs :
       /\ procs[p].pc = "now"
       /\ procs' = [procs EXCEPT ![p].t = now, ![p].pc = "ensure"]
       /\ UNCHANGED <<now, steps, limiterVars, csrfVars, dbVars, writer, resp>>

\* if ip not in self.requests: self.requests[ip] = []
L_Ensure ==
    \E p \in Procs :
       /\ procs[p].pc = "ensure"
       /\ requests' = IF procs[p].ip \in DOMAIN requests THEN requests
                      ELSE Put(requests, procs[p].ip, <<>>)
       /\ procs' = [procs EXCEPT ![p].pc = "filter"]
       /\ UNCHANGED <<now, steps, max_requests, window_seconds, last_cleanup, admitted, denied,
                      unswept,
                      csrfVars, dbVars, writer, resp>>

\* recent_requests = [ts for ts in self.requests[ip] if ts > window_start]
L_Filter ==
    \E p \in Procs :
       /\ procs[p].pc = "filter"
       /\ procs' = IF procs[p].ip \notin DOMAIN requests THEN Return(p, "raised")
                   ELSE [procs EXCEPT
                           ![p].recent = Recent(requests[procs[p].ip],
                                                procs[p].t - window_seconds),
                           ![p].pc = "check"]
       /\ UNCHANGED <<now, steps, limiterVars, csrfVars, dbVars, writer, resp>>

\* if len(recent_requests) >= max_requests: return True, ...
L_Check ==
    \E p \in Procs :
       /\ procs[p].pc = "check"
       /\ procs' = IF Limited(Len(procs[p].recent), max_requests)
                   THEN Return(p, "limited")
                   ELSE [procs EXCEPT ![p].pc = "append"]
       /\ denied' = IF Limited(Len(procs[p].recent), max_requests)
                    THEN LogDenied(denied, procs[p].ip, TRUE, procs[p].t)
                    ELSE denied
       /\ UNCHANGED <<now, steps, max_requests, window_seconds, requests, last_cleanup,
                      admitted, unswept, csrfVars, dbVars, writer, resp>>

\* self.requests[ip].append(now)
L_Append ==
    \E p \in Procs :
       /\ procs[p].pc = "append"
       /\ IF procs[p].ip \notin DOMAIN requests
          THEN /\ procs' = Return(p, "raised")
               /\ UNCHANGED requests
          ELSE /\ requests' = [requests EXCEPT ![procs[p].ip] = Append(@, procs[p].t)]
               /\ procs' = [procs EXCEPT ![p].pc = "assign"]
       /\ UNCHANGED <<now, steps, max_requests, window_seconds, last_cleanup, admitted, denied,
                      unswept,
                      csrfVars, dbVars, writer, resp>>

\* if ip in self.requests: self.requests[ip] = recent_requests + [now]
\* return False, ...
L_Assign ==
    \E p \in Procs :
       /\ procs[p].pc = "assign"
       /\ requests' = IF procs[p].ip \in DOMAIN requests
                      THEN [requests EXCEPT ![procs[p].ip] =
                               Append(procs[p].recent, procs[p].t)]
                      ELSE requests
       /\ admitted' = Log(admitted, procs[p].ip, FALSE, procs[p].t)
       /\ denied' = LogDenied(denied, procs[p].ip, FALSE, procs[p].t)
       /\ procs' = Return(p, "admitted")
       /\ UNCHANGED <<now, steps, max_requests, window_seconds, last_cleanup, unswept,
                      csrfVars, dbVars, writer, resp>>

\* The clock advances while calls are in progress
L_Tick ==
    /\ \E d \in {150, 301} :
         /\ now + d <= MaxClock
         /\ now' = now + d
    /\ UNCHANGED <<steps, limiterVars, csrfVars, dbVars, concVars, resp>>

InitLimiterConc ==
    /\ now = 0
    /\ steps = 0
    /\ max_requests \in {1, 2}
    /\ window_seconds \in {300, 3600}
    /\ LimiterStart
    /\ CsrfStart
    /\ DbStart
    /\ procs = [p \in Procs |-> IdleThread]
    /\ writer = 0
    /\ resp = NoResp

NextLimiterConc ==
    \/ L_Begin \/ L_Cleanup \/ L_Now \/ L_Ensure \/ L_Filter
    \/ L_Check \/ L_Append \/ L_Assign \/ L_Tick

SpecLimiterConc == InitLimiterConc /\ [][NextLimiterConc]_vars

\* C10: with admit calls on one key running concurrently, no interval
\* (t, t + window_seconds] holds more than max_requests admissions of the key.
C10_ConcurrentWindow ==
    \A k \in DOMAIN admitted : \A i \in DOMAIN admitted[k] :
        Cardinality({j \in DOMAIN admitted[k] :
                        /\ admitted[k][i] <= admitted[k][j]
                        /\ admitted[k][j] < admitted[k][i] + window_seconds})
            <= max_requests

----------------------------------------------------------------------------
(* CSRFProtection called from several threads, statement by statement *)

IdleCsrf ==
    [pc |-> "idle", op |-> "none", user |-> NoUser, token |-> NoToken, t |-> 0,
     copy |-> <<>>, outcome |-> "none"]

\* The call of thread p ends: "issued", "true", "false", or "raised" (KeyError)
CsrfReturn(p, outcome) == [procs EXCEPT ![p].pc = "done", ![p].outcome = outcome]

\* generate_token(user_id): token = sha256(...uuid4()); now = time.time()
G_Begin ==
    \E p \in Procs, user_id \in Principals :
       /\ steps < MaxCsrfCalls
       /\ next_token <= MaxTokens
       /\ procs[p].pc \in {"idle", "done"}
       /\ procs' = [procs EXCEPT ![p] = [IdleCsrf EXCEPT !.pc = "g_copy", !.op = "issue",
                                            !.user = user_id, !.token = next_token,
                                            !.t = now]]
       /\ next_token' = next_token + 1
       /\ steps' = steps + 1
       /\ UNCHANGED <<now, limiterVars, tokens, issued, accepted, dbVars, writer, resp>>

\* The dict comprehension over tokens[user_id], or tokens[user_id] = {}
G_Copy ==
    \E p \in Procs :
       /\ procs[p].pc = "g_copy"
       /\ IF procs[p].user \in DOMAIN tokens
          THEN /\ procs' = [procs EXCEPT
                              ![p].copy = [x \in {y \in DOMAIN tokens[procs[p].user] :
                                                    procs[p].t - tokens[procs[p].user][y]
                                                        < TokenTTL}
                                             |-> tokens[procs[p].user][x]],
                              ![p].pc = "g_store"]
               /\ UNCHANGED tokens
          ELSE /\ tokens' = Put(tokens, procs[p].user, <<>>)
               /\ procs' = [procs EXCEPT ![p].pc = "g_add"]
       /\ UNCHANGED <<now, steps, limiterVars, next_token, issued, accepted, dbVars,
                      writer, resp>>

\* CSRFProtection.tokens[user_id] = {...}
G_Store ==
    \E p \in Procs :
       /\ procs[p].pc = "g_store"
       /\ tokens' = Put(tokens, procs[p].user, procs[p].copy)
       /\ procs' = [procs EXCEPT ![p].pc = "g_add"]
       /\ UNCHANGED <<now, steps, limiterVars, next_token, issued, accepted, dbVars,
                      writer, resp>>

\* CSRFProtection.tokens[user_id][token] = now; return token
G_Add ==
    \E p \in Procs :
       /\ procs[p].pc = "g_add"
       /\ tokens' = [tokens EXCEPT ![procs[p].user] = Put(@, procs[p].token, procs[p].t)]
       /\ issued' = Put(issued, procs[p].token, [user |-> procs[p].user, at |-> procs[p].t])
       /\ procs' = CsrfReturn(p, "issued")
       /\ UNCHANGED <<now, steps, limiterVars, next_token, accepted, dbVars, writer, resp>>

\* validate_token(user_id, token): the three membership tests
V_Begin ==
    \E p \in Procs, user_id \in Principals \cup {NoUser}, token \in 0 .. MaxTokens :
       /\ steps < MaxCsrfCalls
       /\ procs[p].pc \in {"idle", "done"}
       /\ procs' = [procs EXCEPT ![p] =
                       [IdleCsrf EXCEPT
                          !.op = "validate", !.user = user_id, !.token = token,
                          !.pc = IF /\ user_id # NoUser /\ token # NoToken
                                    /\ user_id \in DOMAIN tokens
                                    /\ token \in DOMAIN tokens[user_id]
                                 THEN "v_read" ELSE "done",
                          !.outcome = IF /\ user_id # NoUser /\ token # NoToken
                                         /\ user_id \in DOMAIN tokens
                                         /\ token \in DOMAIN tokens[user_id]
                                      THEN "none" ELSE "false"]]
       /\ steps' = steps + 1
       /\ UNCHANGED <<now, limiterVars, csrfVars, dbVars, writer, resp>>

\* token_time = CSRFProtection.tokens[user_id][token]
V_Read ==
    \E p \in Procs :
       /\ procs[p].pc = "v_read"
       /\ procs' = IF procs[p].token \in DOMAIN tokens[procs[p].user]
                   THEN [procs EXCEPT ![p].t = tokens[procs[p].user][procs[p].token],
                                      ![p].pc = "v_delete"]
                   ELSE CsrfReturn(p, "raised")
       /\ UNCHANGED <<now, steps, limiterVars, csrfVars, dbVars, writer, resp>>

\* The age test and del CSRFProtection.tokens[user_id][token]
V_Delete ==
    \E p \in Procs :
       /\ procs[p].pc = "v_delete"
       /\ IF procs[p].token \notin DOMAIN tokens[procs[p].user]
          THEN /\ procs' = CsrfReturn(p, "raised")
               /\ UNCHANGED <<tokens, accepted>>
          ELSE /\ tokens' = [tokens EXCEPT ![procs[p].user] = Del(@, procs[p].token)]
               /\ IF Expired(now - procs[p].t)
                  THEN /\ procs' = CsrfReturn(p, "false")
                       /\ UNCHANGED accepted
                  ELSE /\ procs' = CsrfReturn(p, "true")
                       /\ accepted' =
                            LET pt == <<procs[p].user, procs[p].token>>
                            IN  Put(accepted, pt,
                                    IF pt \in DOMAIN accepted THEN accepted[pt] + 1 ELSE 1)
       /\ UNCHANGED <<now, steps, limiterVars, next_token, issued, dbVars, writer, resp>>

\* The clock advances past the token lifetime while calls are in progress
V_Tick ==
    /\ now + TokenTTL + 1 <= MaxCsrfClock
    /\ now' = now + TokenTTL + 1
    /\ UNCHANGED <<steps, limiterVars, csrfVars, dbVars, concVars, resp>>

InitCsrfConc ==
    /\ now = 0
    /\ steps = 0
    /\ max_requests = 10
    /\ window_seconds = 300
    /\ LimiterStart
    /\ CsrfStart
    /\ DbStart
    /\ procs = [p \in Procs |-> IdleCsrf]
    /\ writer = 0
    /\ resp = NoResp

NextCsrfConc ==
    \/ G_Begin \/ G_Copy \/ G_Store \/ G_Add
    \/ V_Begin \/ V_Read \/ V_Delete \/ V_Tick

SpecCsrfConc == InitCsrfConc /\ [][NextCsrfConc]_vars

\* C11: under any interleaving of issue and validate calls of one principal,
\* at most one validate call returns True for a token value, and every other
\* validate call on that value returns False (none raises).
C11_OneValidateWins ==
    /\ \A pt \in DOMAIN accepted : accepted[pt] < 2
    /\ \A p \in Procs : procs[p].op = "validate" => procs[p].outcome # "raised"

\* C12: is_rate_limited never raises, also when a call on one key interleaves
\* with the sweep of all keys run by a call on another key: every call ends
\* with an (allowed, remaining) pair.
C12_AdmitNeverRaises ==
    \A p \in Procs : procs[p].pc = "done" => procs[p].outcome \in {"admitted", "limited"}

----------------------------------------------------------------------------
(* The rate limit of /api/submit-activity *)

\* The admissions the limiter granted to submissions of principal u, as pairs
\* (key, position in the key's history)
SubmitAdmissions(u) ==
    UNION {{k} \X DOMAIN admitted[k] :
             k \in {x \in DOMAIN admitted : x[2] = <<"submit_activity", u>>}}

\* C13: a principal is admitted for at most 3 submissions within any
\* 3600-second interval, whatever client address or forwarded-for / real-IP
\* headers the requests carry.
C13_KeyedByPrincipal ==
    \A u \in DOMAIN Users : \A a \in SubmitAdmissions(u) :
        Cardinality({b \in SubmitAdmissions(u) :
                        /\ admitted[a[1]][a[2]] <= admitted[b[1]][b[2]]
                        /\ admitted[b[1]][b[2]] < admitted[a[1]][a[2]] + 3600}) <= 3

\* The step is one request to /api/submit-activity, answered in resp'
SubmitStep == resp'.op = "submit" /\ resp'.seq = steps

\* The limiter key of a submit request of principal u from client address ip
SubmitKey(ip, u) == <<ip, <<"submit_activity", u>>>>

\* The admissions of key k during the 3600 seconds up to now
AdmittedWithinHour(k) ==
    IF k \in DOMAIN admitted
    THEN Cardinality({i \in DOMAIN admitted[k] : admitted[k][i] > now - 3600})
    ELSE 0

\* A valid activity, sent by a parent, with the database accepting the write
ValidSubmit(r) ==
    /\ r.caller # Anonymous /\ Users[r.caller] = "parent"
    /\ r.data \in {ValidData, [ValidData EXCEPT !.description = ""]}
    /\ ~r.io_error

\* The step adds exactly one row to submitted_activities: pending, owned by u
CreatesPending(u) ==
    \E id \in DOMAIN db'.submitted_activities \ DOMAIN db.submitted_activities :
        /\ db'.submitted_activities = Put(db.submitted_activities, id,
                                          db'.submitted_activities[id])
        /\ db'.submitted_activities[id].status = "pending"
        /\ db'.submitted_activities[id].submitted_by = u

\* A valid submission that follows n admissions of its key within the hour is
\* stored as pending when n < budget and answered 429 with Retry-After 3600,
\* storing nothing, when n >= budget
SubmitBudget(budget) ==
    (SubmitStep /\ ValidSubmit(resp'))
    => LET n == AdmittedWithinHour(SubmitKey(resp'.ip, resp'.caller))
       IN  /\ n < budget => /\ resp'.code = 200 /\ resp'.success
                            /\ CreatesPending(resp'.caller)
           /\ n >= budget => /\ resp'.code = 429 /\ resp'.retry_after = 3600
                             /\ db' = db

\* C14 as stated: of three valid submissions of one principal within one hour
\* the first two succeed and create pending submissions, and the third is
\* answered 429 with Retry-After = 3600 and creates no submission.
C14_ThirdDenied == [][SubmitBudget(2)]_vars

\* C14, amended: of four valid submissions of one principal from one client
\* address within one hour the first three succeed and create pending
\* submissions, and the fourth is answered 429 with Retry-After = 3600 and
\* creates no submission.
C14_FourthDenied == [][SubmitBudget(3)]_vars

\* A fourth valid submission within the hour has just been answered 429 after
\* three were stored as pending.
C14_Witness ==
    /\ resp.op = "submit" /\ resp.code = 429 /\ resp.retry_after = 3600
    /\ ValidSubmit(resp)
    /\ Cardinality({id \in DOMAIN db.submitted_activities :
                      /\ db.submitted_activities[id].submitted_by = resp.caller
                      /\ db.submitted_activities[id].status = "pending"
                      /\ db.submitted_activities[id].created_at = now}) = 3

----------------------------------------------------------------------------
(* is_rate_limited with the budget and the window chosen by each call *)

\* One call is_rate_limited(ip, maxreq, window)
AdmitCall ==
    /\ steps < MaxAdmitSteps
    /\ \E ip \in Keys, maxreq \in Budgets, window \in {300, 3600} :
         \E r \in {is_rate_limited(requests, last_cleanup, ip, maxreq, window, now)} :
             /\ requests' = r.requests
             /\ last_cleanup' = r.last_cleanup
             /\ admitted' = Log(admitted, ip, r.limited, now)
             /\ denied' = LogDenied(denied, ip, r.limited, now)
             /\ unswept' = Unswept(unswept, ip, maxreq, window, now)
             /\ resp' = [op |-> "admit", seq |-> steps, key |-> ip,
                         max_requests |-> maxreq, window_seconds |-> window,
                         limited |-> r.limited, remaining |-> r.remaining]
    /\ steps' = steps + 1
    /\ UNCHANGED <<now, max_requests, window_seconds, csrfVars, dbVars, concVars>>

\* The clock advances between calls
AdmitTick ==
    /\ steps < MaxAdmitSteps
    /\ \E d \in Deltas : now' = now + d
    /\ steps' = steps + 1
    /\ UNCHANGED <<limiterVars, csrfVars, dbVars, resp, concVars>>

InitAdmit ==
    /\ now = 0
    /\ steps = 0
    /\ max_requests = 10
    /\ window_seconds = 300
    /\ LimiterStart
    /\ CsrfStart
    /\ DbStart
    /\ Sequential
    /\ resp = NoResp

NextAdmit == AdmitCall \/ AdmitTick

SpecAdmit == InitAdmit /\ [][NextAdmit]_vars

\* The timestamps stored for key k that survive pruning to the window
Surviving(k, window) ==
    IF k \in DOMAIN requests THEN Recent(requests[k], now - window) ELSE <<>>

\* C15: with n the number of the key's stored timestamps that survive pruning
\* to the window, a call with n >= max_requests denies, reports
\* remaining = max(0, max_requests - n) and records no timestamp; any other
\* call admits, appends now to the key's sequence and reports
\* remaining = max_requests - n - 1.
C15_AdmitContract ==
    [][(resp'.op = "admit" /\ resp'.seq = steps)
       => LET k == resp'.key
              kept == Surviving(k, resp'.window_seconds)
              n == Len(kept)
              m == resp'.max_requests
          IN  IF n >= m
              THEN /\ resp'.limited
                   /\ resp'.remaining = (IF m - n > 0 THEN m - n ELSE 0)
                   /\ Recent(requests'[k], now - resp'.window_seconds) = kept
              ELSE /\ ~resp'.limited
                   /\ resp'.remaining = m - n - 1
                   /\ requests'[k] = Append(kept, now)]_vars

\* The rate check of the submit request answered in resp' denies it: the
\* caller passed the role check and the key has used up its budget of 3
SubmitDenied ==
    \/ resp'.code = 429
    \/ /\ resp'.caller # Anonymous /\ Users[resp'.caller] = "parent"
       /\ AdmittedWithinHour(SubmitKey(resp'.ip, resp'.caller)) >= 3

\* C16: a request that the rate check denies is answered 429 with
\* Retry-After equal to the window of the endpoint's policy (3600 for
\* submissions), whatever its body holds, and no row is written for it.
C16_DeniedHasNoEffect ==
    [][(SubmitStep /\ SubmitDenied)
       => /\ resp'.code = 429
          /\ resp'.retry_after = 3600
          /\ ~resp'.success
          /\ db' = db /\ next_id' = next_id]_vars

\* A request whose body would have been refused as spam has been denied by
\* the rate check, with submissions stored before it.
C16_Witness ==
    /\ resp.op = "submit" /\ resp.code = 429 /\ resp.retry_after = 3600
    /\ resp.data.description \in SpamTexts
    /\ DOMAIN db.submitted_activities # {}

\* C17: after a denial at time t on a key with max_requests >= 1, the next
\* call on that key, made at t + window_seconds or later, is admitted.
C17_BackoffSuffices ==
    [][(/\ resp'.op = "admit" /\ steps' = steps + 1 /\ now' = now
        /\ max_requests >= 1
        /\ resp'.key \in DOMAIN denied
        /\ now >= denied[resp'.key] + window_seconds)
       => ~resp'.limited]_vars

\* A key whose latest call was a denial has just been admitted exactly
\* window_seconds after that denial.
C17_Witness ==
    /\ resp.op = "admit" /\ ~resp.limited
    /\ max_requests >= 1
    /\ resp.waited = <<window_seconds>>

----------------------------------------------------------------------------
(* Validation of a submission *)

\* Each required field is non-empty after sanitization and no field, the
\* optional description included, matches a spam pattern
FieldsAcceptable(data) ==
    /\ \A i \in DOMAIN required_fields : sanitize_input(data[required_fields[i]]) # ""
    /\ \A i \in DOMAIN required_fields :
          ~detect_spam_patterns(sanitize_input(data[required_fields[i]]))
    /\ ~detect_spam_patterns(sanitize_input(data.description))

\* C18: a submit request that passes the role and rate checks stores a new
\* pending submission only when its fields are acceptable; in every other
\* case nothing is stored and the response is HTTP 400.
C18_InvalidIs400 ==
    [][(/\ SubmitStep
        /\ resp'.caller # Anonymous /\ Users[resp'.caller] = "parent"
        /\ resp'.code # 429)
       => /\ db' # db => (FieldsAcceptable(resp'.data) /\ CreatesPending(resp'.caller))
          /\ ~FieldsAcceptable(resp'.data) => (db' = db /\ resp'.code = 400)]_vars

----------------------------------------------------------------------------
(* Refusals of /api/moderate-submission *)

\* The step is one request to /api/moderate-submission by an administrator,
\* answered in resp'
AdminResolveStep ==
    /\ resp'.op = "resolve" /\ resp'.seq = steps
    /\ resp'.caller # Anonymous /\ Users[resp'.caller] = "admin"

\* The request lacks the submission id or the action, or names an action
\* other than approve and reject
BadResolveRequest(r) ==
    \/ r.submission_id = NoId
    \/ r.action = NoAction
    \/ r.action \notin {"approve", "reject"}

\* C19: resolve without a submission id or an action, or with an action other
\* than approve/reject, returns 400; resolve on an id that matches no pending
\* submission returns 404; either way no submission, venue or offering row is
\* changed or created.
C19_RefusalsChangeNothing ==
    [][AdminResolveStep
       => /\ BadResolveRequest(resp') => (resp'.code = 400 /\ db' = db)
          /\ (~BadResolveRequest(resp') /\ resp'.prior # "pending")
                => (resp'.code = 404 /\ db' = db)]_vars

----------------------------------------------------------------------------
(* Roles *)

\* The caller is signed in with role
HasRole(caller, role) == caller # Anonymous /\ Users[caller] = role

\* No submission, venue, offering or rate limiter state changes in the step
NothingChanges ==
    /\ db' = db /\ layout' = layout /\ next_id' = next_id
    /\ requests' = requests /\ last_cleanup' = last_cleanup
    /\ admitted' = admitted /\ denied' = denied

\* C20: only an admin changes the status of a submission and only a parent
\* creates one: a submit or resolve request of an unauthenticated caller or
\* of a caller with another role changes no submission, venue, offering or
\* rate limiter state.
C20_RoleGuards ==
    [][/\ (SubmitStep /\ ~HasRole(resp'.caller, "parent"))
            => (NothingChanges /\ resp'.code \in {302, 403})
       /\ (resp'.op = "resolve" /\ resp'.seq = steps /\ ~HasRole(resp'.caller, "admin"))
            => (NothingChanges /\ resp'.code \in {302, 403})
       /\ (DOMAIN db'.submitted_activities # DOMAIN db.submitted_activities)
            => (SubmitStep /\ HasRole(resp'.caller, "parent"))
       /\ (\E id \in DOMAIN db.submitted_activities :
              db'.submitted_activities[id].status # db.submitted_activities[id].status)
            => AdminResolveStep]_vars

\* A parent's resolve request has been refused with a pending submission in
\* the queue and the limiter holding state.
C20_Witness ==
    /\ resp.op = "resolve" /\ resp.code = 403
    /\ HasRole(resp.caller, "parent")
    /\ \E id \in DOMAIN db.submitted_activities :
          db.submitted_activities[id].status = "pending"
    /\ requests # <<>>

----------------------------------------------------------------------------
(* Ownership and the claims on agencies *)

\* The owner of record of an agency
OwnerOf(agency_id) == db.schools[agency_id].created_by

\* C21: every ownership claim is on an agency its claimant does not own: a
\* claim request on an agency whose created_by is the caller creates no claim.
C21_NoClaimOnOwnAgency ==
    \A c \in DOMAIN db.user_agency_claims :
        OwnerOf(db.user_agency_claims[c].agency_id) # db.user_agency_claims[c].user_id

\* C22: the claimable list computed for a principal holds exactly the
\* agencies the principal does not own and has no pending claim on; an agency
\* on which all of the principal's claims are resolved, and which the
\* principal does not own, is listed.
C22_ClaimableList ==
    (resp.op = "list" /\ resp.code = 200)
    => resp.available = {e \in DOMAIN db.schools :
                            /\ OwnerOf(e) # resp.caller
                            /\ PendingClaims(resp.caller, e) = {}}

----------------------------------------------------------------------------
(* The records approve creates *)

\* C23: the venue created by approve is verified and owned by the reviewer,
\* not by the submitter; the offering created by the same approve is linked
\* to that venue, is verified, and has age_min = 3 and age_max = 18.
C23_ApprovedRecords ==
    /\ \A sid \in DOMAIN db.submitted_activities :
          /\ \A v \in VenuesFor(sid) :
                /\ db.schools[v].verified = 1
                /\ db.schools[v].created_by # db.submitted_activities[sid].submitted_by
                /\ HasRole(db.schools[v].created_by, "admin")
          /\ \A a \in OfferingsFor(sid) :
                /\ db.activities[a].school_id \in VenuesFor(sid)
                /\ db.activities[a].verified = 1
                /\ db.activities[a].age_min = 3
                /\ db.activities[a].age_max = 18
    /\ (ResolveAnswered /\ resp.action = "approve" /\ resp.code = 200)
          => /\ \A v \in VenuesFor(resp.submission_id) :
                   db.schools[v].created_by = resp.caller
             /\ OfferingsFor(resp.submission_id) # {}

\* An approve has just succeeded and left a venue owned by the reviewer with
\* an offering linked to it.
C23_Witness ==
    /\ ResolveAnswered /\ resp.action = "approve" /\ resp.code = 200
    /\ \E v \in VenuesFor(resp.submission_id), a \in OfferingsFor(resp.submission_id) :
          /\ db.schools[v].created_by = resp.caller
          /\ db.activities[a].school_id = v

\* C24: for a submission stored in the table layout that submit itself
\* creates, approve completes and the created records carry the submission's
\* stored fields: venue name = school_name, venue city = city, offering
\* title = activity_name, offering category = category, and both
\* descriptions = the submission's description.
C24_OwnLayoutApprove ==
    (/\ ResolveAnswered /\ resp.action = "approve"
     /\ resp.prior = "pending" /\ resp.fail = "none"
     /\ layout = "own")
    => /\ resp.code = 200
       /\ LET sub == db.submitted_activities[resp.submission_id]
          IN  /\ \E v \in VenuesFor(resp.submission_id) :
                    /\ db.schools[v].name = sub.school_name
                    /\ db.schools[v].city = sub.city
                    /\ db.schools[v].description = sub.description
              /\ \E a \in OfferingsFor(resp.submission_id) :
                    /\ db.activities[a].title = sub.activity_name
                    /\ db.activities[a].category = sub.category
                    /\ db.activities[a].description = sub.description

\* C25: resolve(id, reject) on a pending submission sets the status of that
\* submission to rejected and changes nothing else: no venue or offering is
\* created and no other submission is modified.
C25_RejectFrame ==
    [][(/\ AdminResolveStep /\ resp'.action = "reject"
        /\ resp'.submission_id # NoId
        /\ resp'.prior = "pending" /\ resp'.fail = "none")
       => /\ resp'.code = 200
          /\ db'.submitted_activities =
                [db.submitted_activities EXCEPT ![resp'.submission_id].status = "rejected"]
          /\ db'.schools = db.schools
          /\ db'.activities = db.activities
          /\ db'.user_agency_claims = db.user_agency_claims
          /\ next_id' = next_id /\ layout' = layout]_vars

\* A reject has just succeeded while another submission is still pending.
C25_Witness ==
    /\ ResolveAnswered /\ resp.action = "reject" /\ resp.code = 200
    /\ StatusOf(db, resp.submission_id) = "rejected"
    /\ \E sid \in DOMAIN db.submitted_activities :
          sid # resp.submission_id /\ db.submitted_activities[sid].status = "pending"

----------------------------------------------------------------------------
(* validate_token on a token of another principal *)

\* The step is one call of validate_token, answered in resp'
ValidateStep == resp'.op = "validate" /\ steps' = steps + 1 /\ now' = now

\* C26: validate(q, t) returns False when t was issued to another principal
\* or was never issued, and leaves the whole store as it was; a token that is
\* in its principal's map and within its lifetime is accepted by validate.
C26_ForeignTokenRefused ==
    [][ValidateStep
       => /\ (\/ resp'.token \notin DOMAIN issued
              \/ issued[resp'.token].user # resp'.user)
                => (~resp'.result /\ tokens' = tokens)
          /\ (/\ resp'.user \in DOMAIN tokens
              /\ resp'.token \in DOMAIN tokens[resp'.user]
              /\ now - tokens[resp'.user][resp'.token] <= TokenTTL)
                => resp'.result]_vars

\* validate(q, t) has just been refused for a token that was issued to another
\* principal, and that principal still holds it.
C26_Witness ==
    /\ resp.op = "validate" /\ ~resp.result
    /\ resp.user # NoUser
    /\ resp.token \in DOMAIN issued
    /\ issued[resp.token].user # resp.user
    /\ resp.token \in DOMAIN tokens[issued[resp.token].user]
    /\ resp.user \in DOMAIN tokens

(***************************************************************************)
(* SecurityValidator on texts of characters.  A text is a sequence of      *)
(* one-character strings; NUL stands for the byte 0, the control           *)
(* character sanitize_input removes.  The patterns of check_sql_injection  *)
(* are run by a small interpreter of the regular expressions the source    *)
(* writes: a pattern is a sequence of elements, and re_search follows the  *)
(* set of positions a match can have reached after each element.           *)
(***************************************************************************)
NUL == "NUL"

LowerCase == <<"a", "b", "c", "d", "e", "f", "g", "h", "i", "j", "k", "l", "m",
              "n", "o", "p", "q", "r", "s", "t", "u", "v", "w", "x", "y", "z">>

UpperCase == <<"A", "B", "C", "D", "E", "F", "G", "H", "I", "J", "K", "L", "M",
              "N", "O", "P", "Q", "R", "S", "T", "U", "V", "W", "X", "Y", "Z">>

\* \d
Digits == {"0", "1", "2", "3", "4", "5", "6", "7", "8", "9"}

\* \s
Whitespace == {" ", "\t", "\n", "\r"}

\* \w
WordChars ==
    {LowerCase[i] : i \in DOMAIN LowerCase} \cup {UpperCase[i] : i \in DOMAIN UpperCase}
    \cup Digits \cup {"_"}

Chars ==
    WordChars \cup Whitespace
    \cup {"'", "\"", "=", ";", "<", ">", "/", "*", ".", ",", NUL}

\* str.lower()
lower(text) ==
    [i \in 1..Len(text) |->
        IF \E n \in DOMAIN UpperCase : UpperCase[n] = text[i]
        THEN LowerCase[CHOOSE n \in DOMAIN UpperCase : UpperCase[n] = text[i]]
        ELSE text[i]]

\* Elements of a pattern: one character of a set, any number of them, one or
\* more of them, one of several words, and \b
One(S) == [k |-> "one", set |-> S, words |-> {}]

Star(S) == [k |-> "star", set |-> S, words |-> {}]

Plus(S) == [k |-> "plus", set |-> S, words |-> {}]

Alt(W) == [k |-> "alt", set |-> {}, words |-> W]

WordBoundary == [k |-> "wb", set |-> {}, words |-> {}]

\* The positions after one more element of the pattern
Advance(s, P, el) ==
    LET IsWordAt(i) == i >= 1 /\ i <= Len(s) /\ s[i] \in WordChars
        \* the positions reachable from i by reading characters of S only
        Run(i, S) == {j \in i..(Len(s) + 1) : \A n \in i..(j - 1) : s[n] \in S}
    IN  CASE el.k = "one"  -> {i + 1 : i \in {p \in P : p <= Len(s) /\ s[p] \in el.set}}
          [] el.k = "star" -> UNION {Run(i, el.set) : i \in P}
          [] el.k = "plus" -> UNION {Run(i, el.set) \ {i} : i \in P}
          [] el.k = "alt"  ->
               {iw[1] + Len(iw[2]) :
                  iw \in {c \in P \X el.words :
                            /\ c[1] + Len(c[2]) - 1 <= Len(s)
                            /\ SubSeq(s, c[1], c[1] + Len(c[2]) - 1) = c[2]}}
          [] el.k = "wb"   -> {i \in P : IsWordAt(i - 1) # IsWordAt(i)}

RECURSIVE Positions(_, _, _)
Positions(s, pattern, n) ==
    IF n = 0 THEN 1..(Len(s) + 1)
    ELSE Advance(s, Positions(s, pattern, n - 1), pattern[n])

\* re.search(pattern, s): the pattern matches somewhere in s
re_search(pattern, s) == Positions(s, pattern, Len(pattern)) # {}

sql_patterns ==
    LET Quotes == {"'", "\""}
        \* . matches every character but the newline
        AnyChar == Chars \ {"\n"}
        Connectives == {<<"o", "r">>, <<"a", "n", "d">>}
    IN  <<
    <<WordBoundary,
      Alt({<<"u", "n", "i", "o", "n">>, <<"s", "e", "l", "e", "c", "t">>,
           <<"i", "n", "s", "e", "r", "t">>, <<"u", "p", "d", "a", "t", "e">>,
           <<"d", "e", "l", "e", "t", "e">>, <<"d", "r", "o", "p">>,
           <<"c", "r", "e", "a", "t", "e">>, <<"a", "l", "t", "e", "r">>}),
      WordBoundary, Star(AnyChar), WordBoundary,
      Alt({<<"f", "r", "o", "m">>, <<"i", "n", "t", "o">>,
           <<"t", "a", "b", "l", "e">>,
           <<"d", "a", "t", "a", "b", "a", "s", "e">>}),
      WordBoundary>>,
    <<One(Quotes), Star(Whitespace), Alt(Connectives), Star(Whitespace),
      One(Quotes), Star(Whitespace), One({"="}), Star(Whitespace),
      One(Quotes), Star(Whitespace), One(Quotes), Star(Whitespace)>>,
    <<One(Quotes), Star(Whitespace), Alt(Connectives), Plus(Whitespace),
      Plus(Digits), Star(Whitespace), One({"="}), Star(Whitespace),
      Plus(Digits), Star(Whitespace), One(Quotes), Star(Whitespace)>>,
    <<One({";"}), Star(Whitespace),
      Alt({<<"d", "r", "o", "p">>, <<"d", "e", "l", "e", "t", "e">>,
           <<"t", "r", "u", "n", "c", "a", "t", "e">>,
           <<"i", "n", "s", "e", "r", "t">>, <<"u", "p", "d", "a", "t", "e">>})>>,
    <<Alt({<<"e", "x", "e", "c">>, <<"e", "x", "e", "c", "u", "t", "e">>,
           <<"s", "p", "_">>, <<"x", "p", "_">>})>>,
    <<Alt({<<"<", "s", "c", "r", "i", "p", "t">>}), Star(Chars \ {">"}),
      One({">"}), Star(AnyChar),
      Alt({<<"<", "/", "s", "c", "r", "i", "p", "t", ">">>})>> >>

\* check_sql_injection on a text of characters
check_sql_injection_chars(text) ==
    /\ text # <<>>
    /\ \E n \in DOMAIN sql_patterns : re_search(sql_patterns[n], lower(text))

\* re.sub(r'<[^>]*>', '', text): every "<" that a ">" follows is removed
\* together with everything up to the first such ">"
RECURSIVE strip_tags_from(_, _)
strip_tags_from(text, i) ==
    IF i > Len(text) THEN <<>>
    ELSE IF text[i] = "<" /\ \E j \in (i + 1)..Len(text) : text[j] = ">"
         THEN strip_tags_from(text,
                  1 + CHOOSE j \in (i + 1)..Len(text) :
                        /\ text[j] = ">"
                        /\ \A n \in (i + 1)..(j - 1) : text[n] # ">")
         ELSE <<text[i]>> \o strip_tags_from(text, i + 1)

\* text[:max_length]
truncate(text, max_length) ==
    SubSeq(text, 1, IF Len(text) < max_length THEN Len(text) ELSE max_length)

\* str.strip()
strip(text) ==
    IF \A i \in DOMAIN text : text[i] \in Whitespace THEN <<>>
    ELSE SubSeq(text,
                CHOOSE i \in DOMAIN text :
                    text[i] \notin Whitespace /\ \A n \in 1..(i - 1) : text[n] \in Whitespace,
                CHOOSE j \in DOMAIN text :
                    text[j] \notin Whitespace /\ \A n \in (j + 1)..Len(text) : text[n] \in Whitespace)

\* sanitize_input on a text of characters: empty for an empty or flagged
\* text; otherwise the control characters are removed, then the tags, and
\* the text is cut to max_length and trimmed
sanitize_input_chars(text, max_length) ==
    IF text = <<>> THEN <<>>
    ELSE IF check_sql_injection_chars(text) THEN <<>>
    ELSE strip(truncate(strip_tags_from(SelectSeq(text, LAMBDA c : c # NUL), 1),
                        max_length))

DefaultMaxLength == 1000

MaxLen == 4

\* The characters the enumerated texts are written with
Alphabet == {"e", "x", "c", "<", ">", " ", NUL}

BooleanInjection == <<"'", " ", "O", "R", " ", "'", "1", "'", "=", "'", "1">>

Benign ==
    <<"M", "y", " ", "k", "i", "d", " ", "l", "o", "v", "e", "s", " ", "r", "o", "b", "o", "t", "i", "c", "s">>

\* A procedure keyword split by a control character
SplitByControl == <<"e", "x", NUL, "e", "c">>

\* Every text of at most MaxLen characters of the alphabet, and the three above
Texts ==
    UNION {[1..n -> Alphabet] : n \in 0..MaxLen}
    \cup {BooleanInjection, Benign, SplitByControl}

\* The validator is given a text and a max_length
InitSanitize ==
    /\ now = 0
    /\ steps = 0
    /\ max_requests = 10
    /\ window_seconds = 300
    /\ LimiterStart
    /\ CsrfStart
    /\ DbStart
    /\ Sequential
    /\ \E text \in Texts, max_length \in {MaxLen - 2, DefaultMaxLength} :
         resp = [op |-> "text", text |-> text, max_length |-> max_length]

\* The text is checked, sanitized, and the result sanitized again
Sanitize ==
    /\ resp.op = "text"
    /\ \E once \in {sanitize_input_chars(resp.text, resp.max_length)} :
         resp' = [op |-> "sanitize", text |-> resp.text,
                  max_length |-> resp.max_length,
                  flagged |-> check_sql_injection_chars(resp.text),
                  once |-> once,
                  twice |-> sanitize_input_chars(once, resp.max_length)]
    /\ steps' = steps + 1
    /\ UNCHANGED <<now, limiterVars, csrfVars, dbVars, concVars>>

SpecSanitize == InitSanitize /\ [][Sanitize]_vars

\* C27: sanitizing a text that is not flagged as an injection a second time,
\* with the same max_length, gives the result of the first pass, also when
\* the first pass removed control characters or tags.
C27_Idempotent ==
    (resp.op = "sanitize" /\ ~resp.flagged) => resp.twice = resp.once

\* C28: the boolean injection ' OR '1'='1 is flagged as an injection and the
\* text My kid loves robotics is not.
C28_KnownTexts ==
    resp.op = "sanitize" =>
        /\ (resp.text = BooleanInjection => resp.flagged)
        /\ (resp.text = Benign => ~resp.flagged)

----------------------------------------------------------------------------
(***************************************************************************)
(* Login and registration.  Both handlers ask check_rate_limit first; what *)
(* follows reads and writes the users table only, which the other          *)
(* operations of this model take as fixed, so the body is the answer it    *)
(* gives to the kind of request that was sent.                             *)
(***************************************************************************)
MaxBudgetSteps == 3

LoginBudget == 10
RegisterBudget == 5
AuthWindow == 900

\* The requests a client can send: accepted, refused by validation, refused
\* by the users table (wrong password; address already registered)
Attempts == {"accepted", "invalid", "refused"}

BudgetDeltas == {450, 3601}

\* handle_login: 10 attempts per 15 minutes per client address, then the body
handle_login(h, attempt) ==
    LET r == check_rate_limit(h, "login", LoginBudget, AuthWindow)
    IN  [limited |-> r.limited, requests |-> r.requests,
         last_cleanup |-> r.last_cleanup, retry_after |-> r.retry_after,
         code |-> IF r.limited THEN r.code
                  ELSE IF attempt = "invalid" THEN 400
                  ELSE IF attempt = "refused" THEN 401
                  ELSE 200]

\* handle_registration: 5 registrations per 15 minutes per client address
handle_registration(h, attempt) ==
    LET r == check_rate_limit(h, "register", RegisterBudget, AuthWindow)
    IN  [limited |-> r.limited, requests |-> r.requests,
         last_cleanup |-> r.last_cleanup, retry_after |-> r.retry_after,
         code |-> IF r.limited THEN r.code
                  ELSE IF attempt = "accepted" THEN 200
                  ELSE 400]

Login ==
    /\ steps < MaxBudgetSteps
    /\ \E h \in Headers, attempt \in Attempts :
         \E r \in {handle_login(h, attempt)} :
             /\ requests' = r.requests
             /\ last_cleanup' = r.last_cleanup
             /\ admitted' = Log(admitted, <<get_client_ip(h), "login">>, r.limited, now)
             /\ denied' = LogDenied(denied, <<get_client_ip(h), "login">>, r.limited, now)
             /\ unswept' = Unswept(unswept, <<get_client_ip(h), "login">>,
                                    LoginBudget, AuthWindow, now)
             /\ resp' = [op |-> "login", seq |-> steps, ip |-> get_client_ip(h),
                         attempt |-> attempt, code |-> r.code,
                         retry_after |-> r.retry_after]
    /\ steps' = steps + 1
    /\ UNCHANGED <<now, max_requests, window_seconds, csrfVars, dbVars, concVars>>

Register ==
    /\ steps < MaxBudgetSteps
    /\ \E h \in Headers, attempt \in Attempts :
         \E r \in {handle_registration(h, attempt)} :
             /\ requests' = r.requests
             /\ last_cleanup' = r.last_cleanup
             /\ admitted' = Log(admitted, <<get_client_ip(h), "register">>, r.limited, now)
             /\ denied' = LogDenied(denied, <<get_client_ip(h), "register">>, r.limited, now)
             /\ unswept' = Unswept(unswept, <<get_client_ip(h), "register">>,
                                    RegisterBudget, AuthWindow, now)
             /\ resp' = [op |-> "register", seq |-> steps, ip |-> get_client_ip(h),
                         attempt |-> attempt, code |-> r.code,
                         retry_after |-> r.retry_after]
    /\ steps' = steps + 1
    /\ UNCHANGED <<now, max_requests, window_seconds, csrfVars, dbVars, concVars>>

\* Time passes between requests
BudgetTick ==
    /\ steps < MaxBudgetSteps
    /\ \E d \in BudgetDeltas : now' = now + d
    /\ steps' = steps + 1
    /\ UNCHANGED <<limiterVars, csrfVars, dbVars, resp, concVars>>

\* The keys and budgets the handlers call the limiter with
PurposeKeys == {get_client_ip(h) : h \in Headers} \X {"login", "register"}

BudgetOf(k) == IF k[2] = "login" THEN LoginBudget ELSE RegisterBudget

\* The limiter after each key has been called c[k] times at the instant the
\* server started: one short of its budget, or its whole budget
InitBudgets ==
    /\ now = 0
    /\ steps = 0
    /\ max_requests = 10
    /\ window_seconds = 300
    /\ \E c \in {c \in [PurposeKeys -> 1..LoginBudget] :
                  \A k \in PurposeKeys : c[k] \in {BudgetOf(k) - 1, BudgetOf(k)}} :
         /\ requests = [k \in PurposeKeys |-> [i \in 1..c[k] |-> 0]]
         /\ admitted = requests
         /\ unswept = requests
    /\ last_cleanup = 0
    /\ denied = <<>>
    /\ CsrfStart
    /\ DbStart
    /\ Sequential
    /\ resp = NoResp

NextBudgets == Login \/ Register \/ BudgetTick

SpecBudgets == InitBudgets /\ [][NextBudgets]_vars

\* The admissions of key k during the window seconds up to now
AdmittedWithin(k, window) ==
    IF k \in DOMAIN admitted
    THEN Cardinality({i \in DOMAIN admitted[k] : admitted[k][i] > now - window})
    ELSE 0

\* The step is a request of the given purpose
PurposeStep(purpose) == resp'.op = purpose /\ resp'.seq = steps /\ steps' = steps + 1

\* The step answers 429 with Retry-After = window exactly when the key
\* <<client address, purpose>> has had budget admissions within the window
UsesBudget(purpose, budget, window) ==
    PurposeStep(purpose)
    => LET n == AdmittedWithin(<<resp'.ip, purpose>>, window)
       IN  /\ n >= budget => resp'.code = 429 /\ resp'.retry_after = window
           /\ n < budget => /\ resp'.code # 429
                            /\ admitted' = Log(admitted, <<resp'.ip, purpose>>, FALSE, now)

\* A request on one key leaves what a call on any other key returns, now or
\* later, as it was
OtherKeysUntouched ==
    LET \* what a call on key k at instant t would return
        Outcome(reqs, lastc, k, t) ==
            LET r == is_rate_limited(reqs, lastc, k, BudgetOf(k), AuthWindow, t)
            IN  <<r.limited, r.remaining>>
    IN
    \A purpose \in {"login", "register"} :
        PurposeStep(purpose)
        => \A k \in (PurposeKeys \cup DOMAIN requests \cup DOMAIN requests')
                        \ {<<resp'.ip, purpose>>} :
             \A t \in {now} \cup {now + d : d \in BudgetDeltas} :
                Outcome(requests', last_cleanup', k, t)
                    = Outcome(requests, last_cleanup, k, t)

\* C29: login is limited on the key of client address and "login" to 10
\* requests per 900 seconds, registration on the key of client address and
\* "register" to 5 per 900 seconds, and a call on one key changes neither
\* the outcome nor the remaining count of a later call on another key.
C29_IndependentBudgets ==
    [][/\ UsesBudget("login", 10, 900)
       /\ UsesBudget("register", 5, 900)
       /\ OtherKeysUntouched]_vars

\* A client whose registrations are exhausted at this instant is still
\* admitted to log in
C29_Witness ==
    /\ resp.op = "login" /\ resp.code = 200
    /\ <<resp.ip, "register">> \in DOMAIN denied
    /\ denied[<<resp.ip, "register">>] = now
    /\ AdmittedWithin(<<resp.ip, "register">>, 900) = 5

----------------------------------------------------------------------------
(* The edge of the window *)

\* The key's stored timestamps that are at most window seconds old, the one
\* exactly window seconds old included
NotOlderThan(k, window) ==
    IF k \in DOMAIN requests
    THEN SelectSeq(requests[k], LAMBDA ts : ts >= now - window)
    ELSE <<>>

\* C30: only timestamps strictly older than now - window_seconds are left out
\* of the surviving count: a stored timestamp exactly window_seconds old is
\* kept and counted against max_requests, so a call is denied exactly when
\* the timestamps at most window_seconds old number max_requests or more,
\* and an admitted call keeps all of them.
C30_BoundaryCounted ==
    [][(resp'.op = "admit" /\ resp'.seq = steps)
       => LET k == resp'.key
              kept == NotOlderThan(k, resp'.window_seconds)
          IN  /\ resp'.limited = (Len(kept) >= resp'.max_requests)
              /\ ~resp'.limited => requests'[k] = Append(kept, now)]_vars

----------------------------------------------------------------------------
(* The sweep *)

\* C31: a call made more than 300 seconds after the last sweep sweeps every
\* key before anything else: no timestamp older than 3600 seconds remains,
\* every younger timestamp of the other keys is kept, a key left with no
\* timestamp is deleted, and the sweep time is recorded.  A call made 300
\* seconds or less after the last sweep does not sweep and leaves every key
\* but the requested one as it was.
C31_SweepWhenDue ==
    [][(resp'.op = "admit" /\ resp'.seq = steps)
       => IF now - last_cleanup > 300
          THEN /\ last_cleanup' = now
               /\ \A x \in DOMAIN requests' : \A i \in DOMAIN requests'[x] :
                     requests'[x][i] >= now - 3600
               /\ \A x \in (DOMAIN requests \cup DOMAIN requests') \ {resp'.key} :
                     LET kept == IF x \in DOMAIN requests' THEN requests'[x] ELSE <<>>
                     IN  /\ x \in DOMAIN requests
                         /\ x \in DOMAIN requests' => kept # <<>>
                         /\ kept \in {SelectSeq(requests[x], LAMBDA ts : ts > now - 3600),
                                      SelectSeq(requests[x], LAMBDA ts : ts >= now - 3600)}
          ELSE /\ last_cleanup' = last_cleanup
               /\ \A x \in (DOMAIN requests \cup DOMAIN requests') \ {resp'.key} :
                     /\ x \in DOMAIN requests /\ x \in DOMAIN requests'
                     /\ requests'[x] = requests[x]]_vars

\* A call has just swept: a key that had admissions, not the requested one,
\* is gone, and another still holds a timestamp from before the sweep
C31_Witness ==
    /\ resp.op = "admit"
    /\ last_cleanup = now /\ now > 3600
    /\ \E x \in DOMAIN admitted \ DOMAIN requests : x # resp.key

\* C32: after any call, whatever max_requests and window_seconds, no key of
\* the limiter maps to an empty list of timestamps.
C32_NoEmptyKey ==
    resp.op = "admit" => \A k \in DOMAIN requests : requests[k] # <<>>

\* C35: in a sequence of calls that all use a window of at most 3600
\* seconds, every call returns the (limited, remaining) pair that a limiter
\* without the sweep returns for it.
C35_SweepTransparent ==
    [][(resp'.op = "admit" /\ resp'.seq = steps)
       => LET plain == is_rate_limited(unswept, now, resp'.key, resp'.max_requests,
                                       resp'.window_seconds, now)
          IN  /\ resp'.window_seconds <= 3600
              /\ resp'.limited = plain.limited
              /\ resp'.remaining = plain.remaining]_vars

\* A call was answered after a sweep removed timestamps that the limiter
\* without the sweep still holds
C35_Witness ==
    /\ resp.op = "admit"
    /\ last_cleanup > 0
    /\ \E k \in DOMAIN unswept :
          /\ k # resp.key
          /\ k \notin DOMAIN requests
          /\ unswept[k] # <<>>

----------------------------------------------------------------------------
(* Eviction at issue *)

\* C33: issue(p) removes from p's tokens every token older than 3600 seconds
\* and adds the new one, keeps every unused token of p that is not older
\* than that (so several tokens of p stay valid together), and leaves the
\* tokens of every other principal as they were.
C33_IssueEvictsOwnExpired ==
    [][(resp'.op = "issue" /\ resp'.token = next_token)
       => LET p == resp'.user
              before == IF p \in DOMAIN tokens THEN tokens[p] ELSE <<>>
          IN  /\ p \in DOMAIN tokens'
              /\ DOMAIN tokens'[p] =
                    {x \in DOMAIN before : now - before[x] <= 3600} \cup {next_token}
              /\ tokens'[p][next_token] = now
              /\ \A x \in DOMAIN tokens'[p] \ {next_token} : tokens'[p][x] = before[x]
              /\ \A q \in (DOMAIN tokens \cup DOMAIN tokens') \ {p} :
                    q \in DOMAIN tokens /\ q \in DOMAIN tokens' /\ tokens'[q] = tokens[q]]_vars

\* C36: a token of p that validate(p, .) would accept at the instant of an
\* issue(p) call is still held after the call, also at the age of exactly
\* 3600 seconds.
C36_IssueAgreesWithValidate ==
    [][(resp'.op = "issue" /\ resp'.token = next_token)
       => \A x \in 1..MaxTokens :
             validate_token(tokens, resp'.user, x, now).result
             => validate_token(tokens', resp'.user, x, now).result]_vars

----------------------------------------------------------------------------
(* Rate limiting of the mutating requests *)

\* C34: every mutating request is put to the rate limiter before its handler
\* touches the database and is processed only if admitted: a submit or
\* resolve request that changes the database is one the limiter admitted in
\* that step.
C34_AdmittedBeforeProcessed ==
    [][(resp'.op \in {"submit", "resolve"} /\ resp'.seq = steps /\ db' # db)
       => \E k \in DOMAIN admitted' : admitted' = Log(admitted, k, FALSE, now)]_vars

\* C37: a submission of a parent that passes the rate check uses up one of
\* the three admissions of the hour, also when its fields are then rejected;
\* after three such requests within the hour the next one from the same
\* client, valid or not, is answered 429 and stores nothing.
C37_RejectedCounts ==
    [][(SubmitStep /\ HasRole(resp'.caller, "parent"))
       => LET k == SubmitKey(resp'.ip, resp'.caller)
              n == AdmittedWithinHour(k)
          IN  /\ n < 3 => /\ resp'.code # 429
                          /\ admitted' = Log(admitted, k, FALSE, now)
              /\ n >= 3 => resp'.code = 429 /\ db' = db]_vars

\* A valid submission is answered 429 after three submissions of the same
\* client within the hour that were all rejected: nothing was ever stored
C37_Witness ==
    /\ resp.op = "submit" /\ ValidSubmit(resp) /\ resp.code = 429
    /\ AdmittedWithinHour(SubmitKey(resp.ip, resp.caller)) = 3
    /\ db.submitted_activities = <<>>

\* C38: a submission with a required field that is flagged as an injection
\* is never stored: the field is sanitized to the empty text and the request
\* is refused as lacking a required field, before any write to the database.
C38_FlaggedNeverStored ==
    [][(SubmitStep
        /\ \E i \in DOMAIN required_fields :
              check_sql_injection(resp'.data[required_fields[i]]))
       => /\ db' = db /\ layout' = layout /\ next_id' = next_id
          /\ ~resp'.success
          /\ \A id \in DOMAIN db'.submitted_activities :
                \A i \in DOMAIN required_fields :
                   ~check_sql_injection(db'.submitted_activities[id][required_fields[i]])
          /\ (HasRole(resp'.caller, "parent") /\ resp'.code # 429)
                => resp'.code = RequiredFieldsFrom(resp'.data, 1)]_vars

\* A parent within budget sent a submission whose last required field is
\* flagged, and it was refused as lacking a field
C38_Witness ==
    /\ resp.op = "submit" /\ HasRole(resp.caller, "parent")
    /\ check_sql_injection(resp.data.city)
    /\ resp.code = 200 /\ ~resp.success

====
